---------------------------- MODULE Spec2Model ----------------------------
(***************************************************************************)
(* CWL eligibility and capacity filtering of trinity_backend               *)
(* (services/cwlService.js: calculateEligibleMembers,                      *)
(* filterClansByCapacity).                                                 *)
(*                                                                         *)
(* JavaScript strings are sequences of one-character strings, so that      *)
(* toLowerCase, trim, parseInt and the /th\s*(\d+)/gi match are computed    *)
(* character by character as the engine computes them.  Objects live in a  *)
(* heap (reference -> record); arrays hold references.                     *)
(*                                                                         *)
(* filterClansByCapacity is modelled in its revision with the per-format   *)
(* rules ("serious" always shown, "lazy" chained, grouping by the roster   *)
(* league); the repository also keeps an older revision that chains every  *)
(* format and groups by the live league.                                   *)
(***************************************************************************)
EXTENDS Integers, Sequences, FiniteSets, TLC

(***************************************************************************)
(* Bounds of the model.                                                    *)
(***************************************************************************)
\* longest input array handed to filterClansByCapacity
MaxClans == 3

(***************************************************************************)
(* JavaScript values.  An optional value (null, undefined or present) is a *)
(* sequence of at most one element.                                        *)
(***************************************************************************)
\* null / undefined
null == <<>>
Some(x) == <<x>>

UpperChars == <<"A","B","C","D","E","F","G","H","I","J","K","L","M",
                "N","O","P","Q","R","S","T","U","V","W","X","Y","Z">>
LowerChars == <<"a","b","c","d","e","f","g","h","i","j","k","l","m",
                "n","o","p","q","r","s","t","u","v","w","x","y","z">>
DigitChars == <<"0","1","2","3","4","5","6","7","8","9">>

\* the value of each decimal digit
DigitTable == [c \in {DigitChars[k] : k \in DOMAIN DigitChars} |->
                 (CHOOSE k \in DOMAIN DigitChars : DigitChars[k] = c) - 1]
IsDigit(c) == c \in DOMAIN DigitTable
DigitVal(c) == DigitTable[c]
\* the characters String.prototype.trim, parseInt and \s treat as white space
IsSpace(c) == c \in {" ", "\t", "\n", "\r"}

\* the small letter of each capital letter
LowerTable == [c \in {UpperChars[k] : k \in DOMAIN UpperChars} |->
                 LowerChars[CHOOSE k \in DOMAIN UpperChars : UpperChars[k] = c]]
LowerChar(c) == IF c \in DOMAIN LowerTable THEN LowerTable[c] ELSE c

\* String.prototype.toLowerCase
toLowerCase(s) == [i \in DOMAIN s |-> LowerChar(s[i])]

\* String.prototype.toUpperCase of one character
UpperTable == [c \in {LowerChars[k] : k \in DOMAIN LowerChars} |->
                 UpperChars[CHOOSE k \in DOMAIN LowerChars : LowerChars[k] = c]]
UpperChar(c) == IF c \in DOMAIN UpperTable THEN UpperTable[c] ELSE c

\* String.prototype.toUpperCase
toUpperCase(s) == [i \in DOMAIN s |-> UpperChar(s[i])]

\* the white space at the start of s ends before position i, that at its end
\* starts behind position j
RECURSIVE trimStartAt(_, _)
trimStartAt(s, i) == IF i <= Len(s) /\ IsSpace(s[i]) THEN trimStartAt(s, i + 1) ELSE i

RECURSIVE trimEndAt(_, _, _)
trimEndAt(s, i, j) == IF j >= i /\ IsSpace(s[j]) THEN trimEndAt(s, i, j - 1) ELSE j

\* String.prototype.trim
trim(s) ==
  LET i == trimStartAt(s, 1)
      j == trimEndAt(s, i, Len(s))
  IN IF i = 1 /\ j = Len(s) THEN s ELSE SubSeq(s, i, j)

\* String.prototype.includes
includes(s, sub) ==
  \E i \in 1..(Len(s) - Len(sub) + 1) : SubSeq(s, i, i + Len(sub) - 1) = sub

\* the longest run of decimal digits of s that starts at position i
RECURSIVE DigitRunEnd(_, _)
DigitRunEnd(s, i) ==
  IF i <= Len(s) /\ IsDigit(s[i]) THEN DigitRunEnd(s, i + 1) ELSE i

\* the longest run of white space of s that starts at position i
RECURSIVE SpaceRunEnd(_, _)
SpaceRunEnd(s, i) ==
  IF i <= Len(s) /\ IsSpace(s[i]) THEN SpaceRunEnd(s, i + 1) ELSE i

\* the value of a non-empty string of decimal digits
RECURSIVE DigitsValue(_)
DigitsValue(d) ==
  IF d = <<>> THEN 0
  ELSE 10 * DigitsValue(SubSeq(d, 1, Len(d) - 1)) + DigitVal(d[Len(d)])

\* parseInt(s) in radix 10 skips leading white space, takes an optional sign and
\* then the longest prefix of digits; it is NaN when there is no digit
parseIntIsNaN(s) ==
  LET i == SpaceRunEnd(s, 1)
      j == IF i <= Len(s) /\ s[i] \in {"+", "-"} THEN i + 1 ELSE i
  IN DigitRunEnd(s, j) = j

\* the number parseInt(s) returns when it is not NaN
parseInt(s) ==
  LET i == SpaceRunEnd(s, 1)
      signed == i <= Len(s) /\ s[i] \in {"+", "-"}
      j == IF signed THEN i + 1 ELSE i
      k == DigitRunEnd(s, j)
  IN IF signed /\ s[i] = "-" THEN 0 - DigitsValue(SubSeq(s, j, k - 1))
     ELSE DigitsValue(SubSeq(s, j, k - 1))

\* parseInt(s) || 0 : NaN and 0 are both falsy
parseIntOr0(s) == IF parseIntIsNaN(s) THEN 0 ELSE parseInt(s)

(***************************************************************************)
(* calculateEligibleMembers                                                *)
(***************************************************************************)
\* thNumbers with (\d) in place of (\d+): one digit per match
RECURSIVE thNumbersOneDigit(_, _)
thNumbersOneDigit(s, i) ==
  IF i + 1 > Len(s) THEN <<>>
  ELSE IF s[i] = "t" /\ s[i + 1] = "h"
    THEN LET j == SpaceRunEnd(s, i + 2)
         IN IF j <= Len(s) /\ IsDigit(s[j])
              THEN <<DigitVal(s[j])>> \o thNumbersOneDigit(s, j + 1)
              ELSE thNumbersOneDigit(s, i + 1)
    ELSE thNumbersOneDigit(s, i + 1)

\* thRequirement.match(/th\s*(\d+)/gi) followed by
\* parseInt(match.replace(/th\s*/i, '')) : the numbers of the successive
\* matches of s found from position i on, left to right, without overlap
RECURSIVE thNumbers(_, _)
thNumbers(s, i) ==
  IF i + 1 > Len(s) THEN <<>>
  ELSE IF s[i] = "t" /\ s[i + 1] = "h"
    THEN LET j == SpaceRunEnd(s, i + 2)
             k == DigitRunEnd(s, j)
         IN IF k > j
              THEN <<DigitsValue(SubSeq(s, j, k - 1))>> \o thNumbers(s, k)
              ELSE thNumbers(s, i + 1)
    ELSE thNumbers(s, i + 1)

\* thNumbers[0] used where the smallest or the largest number is meant
FirstNumber(xs) == xs[1]

\* Math.min(...xs) and Math.max(...xs) of a non-empty array
MathMin(xs) == CHOOSE m \in {xs[i] : i \in DOMAIN xs} : \A i \in DOMAIN xs : m <= xs[i]
MathMax(xs) == CHOOSE m \in {xs[i] : i \in DOMAIN xs} : \A i \in DOMAIN xs : m >= xs[i]

\* calculateEligibleMembers that takes a rule without number as "no
\* requirement" and counts every member
calculateEligibleNoRuleAll(sheetData, memberList) ==
  IF sheetData = null \/ sheetData[1].townHall = <<>> THEN Len(memberList)
  ELSE
    LET thRequirement == toLowerCase(sheetData[1].townHall)
        nums == thNumbers(thRequirement, 1)
        isAndBelow == includes(thRequirement, <<"b","e","l","o","w">>)
    IN IF Len(nums) = 0 THEN Len(memberList)
       ELSE
         LET minTH == MathMin(nums)
             maxTH == MathMax(nums)
         IN IF isAndBelow
              THEN Cardinality({i \in DOMAIN memberList : memberList[i] <= maxTH})
            ELSE IF Len(nums) = 1
              THEN Cardinality({i \in DOMAIN memberList : memberList[i] = nums[1]})
            ELSE Cardinality({i \in DOMAIN memberList :
                                memberList[i] >= minTH /\ memberList[i] <= maxTH})

\* sheetData is null or Some(row); memberList is the array of the members'
\* townHallLevel (getClanDetails always sets an array)
calculateEligibleMembers(sheetData, memberList) ==
  IF sheetData = null \/ sheetData[1].townHall = <<>> THEN 0
  ELSE
    LET thRequirement == toLowerCase(sheetData[1].townHall)
        nums == thNumbers(thRequirement, 1)
        isAndBelow == includes(thRequirement, <<"a","n","d"," ","b","e","l","o","w">>)
                        \/ includes(thRequirement, <<"b","e","l","o","w">>)
    IN IF Len(nums) = 0 THEN 0
       ELSE
         LET minTH == MathMin(nums)
             maxTH == MathMax(nums)
         IN IF isAndBelow
              THEN Cardinality({i \in DOMAIN memberList : memberList[i] <= maxTH})
            ELSE IF Len(nums) = 1
              THEN Cardinality({i \in DOMAIN memberList : memberList[i] = nums[1]})
            ELSE Cardinality({i \in DOMAIN memberList :
                                memberList[i] >= minTH /\ memberList[i] <= maxTH})

(***************************************************************************)
(* filterClansByCapacity.  h is the heap (reference -> clan record), the   *)
(* arrays are sequences of references.                                     *)
(***************************************************************************)
\* the sort key used for a clan without "In Use" value
DefaultInUse == 999

Str_serious == <<"s","e","r","i","o","u","s">>
Str_lazy    == <<"l","a","z","y">>
Str_Unknown == <<"U","n","k","n","o","w","n">>

\* leagueName that groups by the live league only
leagueNameLiveOnly(clan) ==
  IF clan.warLeague # null /\ clan.warLeague[1] # ""
    THEN clan.warLeague[1]
  ELSE "Unknown"

\* clan.sheetData?.league || clan.warLeague?.name || 'Unknown'
leagueName(clan) ==
  IF clan.sheetData # null /\ clan.sheetData[1].league # ""
    THEN clan.sheetData[1].league
  ELSE IF clan.warLeague # null /\ clan.warLeague[1] # ""
    THEN clan.warLeague[1]
  ELSE "Unknown"

\* a.sheetData?.inUse || 999
inUseKey(clan) ==
  IF clan.sheetData # null /\ clan.sheetData[1].inUse # 0
    THEN clan.sheetData[1].inUse
    ELSE DefaultInUse

\* currentFormat without .toLowerCase().trim()
currentFormatAsWritten(clan) ==
  IF clan.sheetData # null /\ clan.sheetData[1].format # <<>>
    THEN clan.sheetData[1].format
    ELSE Str_Unknown

\* (clan.sheetData?.format || 'Unknown').toLowerCase().trim()
currentFormat(clan) ==
  trim(toLowerCase(IF clan.sheetData # null /\ clan.sheetData[1].format # <<>>
                     THEN clan.sheetData[1].format
                     ELSE Str_Unknown))

\* parseInt(clan.sheetData?.members) without || 0: a comparison with NaN is
\* false, as is one with a number no clan reaches
requiredOfNoDefault(clan) ==
  IF clan.sheetData = null \/ parseIntIsNaN(clan.sheetData[1].members) THEN 1000
  ELSE parseInt(clan.sheetData[1].members)

\* parseInt(clan.sheetData?.members) || 0
requiredOf(clan) ==
  IF clan.sheetData = null THEN 0 ELSE parseIntOr0(clan.sheetData[1].members)

\* Object.keys(clansByLeague): the league names in order of first insertion
RECURSIVE leagueKeys(_, _)
leagueKeys(h, cs) ==
  IF cs = <<>> THEN <<>>
  ELSE LET init == leagueKeys(h, SubSeq(cs, 1, Len(cs) - 1))
           name == leagueName(h[cs[Len(cs)]])
       IN IF \E i \in DOMAIN init : init[i] = name THEN init ELSE Append(init, name)

\* clansByLeague[name] after the forEach: the clans of the league in input order
clansByLeague(h, cs, name) ==
  LET InLeague(r) == leagueName(h[r]) = name IN SelectSeq(cs, InLeague)

\* insertion of r into the sorted array xs behind every element whose key is
\* not greater (Array.prototype.sort is stable)
RECURSIVE insertByInUse(_, _, _)
insertByInUse(h, xs, r) ==
  IF xs = <<>> THEN <<r>>
  ELSE IF inUseKey(h[xs[Len(xs)]]) - inUseKey(h[r]) <= 0 THEN Append(xs, r)
  ELSE Append(insertByInUse(h, SubSeq(xs, 1, Len(xs) - 1), r), xs[Len(xs)])

\* xs.sort((a, b) => aInUse - bInUse)
RECURSIVE sortByInUse(_, _)
sortByInUse(h, xs) ==
  IF xs = <<>> THEN <<>>
  ELSE insertByInUse(h, sortByInUse(h, SubSeq(xs, 1, Len(xs) - 1)), xs[Len(xs)])

\* processClan without RULE 1: a "serious" clan falls through to the last
\* branch, which shows only the formats that are neither "lazy" nor "serious"
processClanNoSeriousRule(h, st, r) ==
  LET clan == h[r]
      fmt == currentFormat(clan)
      shown == [st EXCEPT !.visibleClans = Append(@, r)]
  IN IF fmt = Str_lazy /\ st.lastVisibleLazyClan = null
       THEN [shown EXCEPT !.lastVisibleLazyClan = Some(r)]
     ELSE IF fmt = Str_lazy /\ st.lastVisibleLazyClan # null
       THEN LET prev == h[st.lastVisibleLazyClan[1]]
                prevEligible == calculateEligibleMembers(prev.sheetData, prev.memberList)
                prevRequired == requiredOf(prev)
            IN IF prevEligible >= prevRequired
                 THEN [shown EXCEPT !.lastVisibleLazyClan = Some(r)]
                 ELSE st
     ELSE IF fmt # Str_lazy /\ fmt # Str_serious THEN shown
     ELSE st

\* processClan whose capacity rules test "not serious" instead of "lazy": a
\* clan of any other format is gated by, and becomes, the gating clan
processClanChainsUnknown(h, st, r) ==
  LET clan == h[r]
      fmt == currentFormat(clan)
      shown == [st EXCEPT !.visibleClans = Append(@, r)]
  IN IF fmt = Str_serious THEN shown
     ELSE IF st.lastVisibleLazyClan = null
       THEN [shown EXCEPT !.lastVisibleLazyClan = Some(r)]
     ELSE LET prev == h[st.lastVisibleLazyClan[1]]
              prevEligible == calculateEligibleMembers(prev.sheetData, prev.memberList)
              prevRequired == requiredOf(prev)
          IN IF prevEligible >= prevRequired
               THEN [shown EXCEPT !.lastVisibleLazyClan = Some(r)]
               ELSE st

\* one iteration of the for loop over leagueClans; st holds visibleClans and
\* lastVisibleLazyClan
processClan(h, st, r) ==
  LET clan == h[r]
      fmt == currentFormat(clan)
      shown == [st EXCEPT !.visibleClans = Append(@, r)]
  IN IF fmt = Str_serious THEN shown
     ELSE IF fmt = Str_lazy /\ st.lastVisibleLazyClan = null
       THEN [shown EXCEPT !.lastVisibleLazyClan = Some(r)]
     ELSE IF fmt = Str_lazy /\ st.lastVisibleLazyClan # null
       THEN LET prev == h[st.lastVisibleLazyClan[1]]
                prevEligible == calculateEligibleMembers(prev.sheetData, prev.memberList)
                prevRequired == requiredOf(prev)
            IN IF prevEligible >= prevRequired
                 THEN [shown EXCEPT !.lastVisibleLazyClan = Some(r)]
                 ELSE st
     ELSE IF fmt # Str_lazy /\ fmt # Str_serious THEN shown
     ELSE st

\* the for loop over the sorted clans of one league, from index i on
RECURSIVE walkLeague(_, _, _, _)
walkLeague(h, leagueClans, i, st) ==
  IF i > Len(leagueClans) THEN st
  ELSE walkLeague(h, leagueClans, i + 1, processClan(h, st, leagueClans[i]))

\* Object.keys(clansByLeague).forEach(...): the leagues keys[k..] processed in
\* turn, each with a fresh lastVisibleLazyClan, pushing onto visibleClans
RECURSIVE processLeagues(_, _, _, _, _)
processLeagues(h, cs, keys, k, visibleClans) ==
  IF k > Len(keys) THEN visibleClans
  ELSE LET leagueClans == sortByInUse(h, clansByLeague(h, cs, keys[k]))
           st == walkLeague(h, leagueClans, 1,
                            [visibleClans |-> visibleClans, lastVisibleLazyClan |-> null])
       IN processLeagues(h, cs, keys, k + 1, st.visibleClans)

\* the array filterClansByCapacity(clans) returns
filterClansByCapacity(h, cs) ==
  sortByInUse(h, processLeagues(h, cs, leagueKeys(h, cs), 1, <<>>))

\* the input array after a call that sorts the array it was given in place
inputSortedInPlace(h, cs) == sortByInUse(h, cs)

\* the input array after the call: the function sorts the per-league arrays and
\* its result array, never the array it was given
inputAfterFilter(h, cs) == cs

(***************************************************************************)
(* The clans handed to the filter.  A roster row is what                   *)
(* fetchCWLClansDetailsFromSheet builds: inUse is an integer (any integer   *)
(* parseInt accepts, 0 and negative ones included), the other fields are    *)
(* the cells' text.  A merged clan carries the row found for its tag or    *)
(* null, the live warLeague name or null, and its members' townHallLevel.   *)
(* League names are ordinary names: none of them is an array index or a    *)
(* property of Object.prototype.                                           *)
(***************************************************************************)
Row(inUse, format, members, townHall, league) ==
  Some([inUse |-> inUse, format |-> format, members |-> members,
        townHall |-> townHall, league |-> league])

MergedClan(sheetData, warLeague, memberList) ==
  [sheetData |-> sheetData, warLeague |-> warLeague, memberList |-> memberList]

Str_TH2 == <<"T","H","2">>
\* a clan that requires one TH2 member and has none
NotFullList == <<>>
\* a clan that requires one TH2 member and has one
FullList == <<2>>

\* lazy clans of one roster league: a zero and two positive ranks, full and
\* not full
LazyClans ==
  { MergedClan(Row(u, Str_lazy, <<"1">>, Str_TH2, "Master 2"), null, ml) :
      u \in {0, 1, 2}, ml \in {NotFullList, FullList} }

\* clans of the same league that are not full, of the other formats: serious,
\* empty, other text, and "lazy" written otherwise with a negative rank
OtherFormatClans ==
  { MergedClan(Row(u, f, <<"1">>, Str_TH2, "Master 2"), null, NotFullList) :
      u \in {1, 2}, f \in {Str_serious, <<>>} }
  \cup
  { MergedClan(Row(1, <<"c","w","l">>, <<"1">>, Str_TH2, "Master 2"), null, NotFullList),
    MergedClan(Row(-1, <<" ","L","a","z","y"," ">>, <<"1">>, Str_TH2, "Master 2"), null, NotFullList) }

\* lazy clans of other groups: another roster league, a live league that
\* differs from the roster league, a missing roster league, and a clan
\* without roster row and without live league
LeagueClans ==
  { MergedClan(Row(1, Str_lazy, <<"1">>, Str_TH2, "Crystal 1"), null, FullList),
    MergedClan(Row(1, Str_lazy, <<"1">>, Str_TH2, "Master 2"), Some("Crystal 1"), NotFullList),
    MergedClan(Row(1, Str_lazy, <<"1">>, Str_TH2, ""), Some("Master 2"), NotFullList),
    MergedClan(null, null, FullList) }

SampleClans == LazyClans \cup OtherFormatClans \cup LeagueClans

(***************************************************************************)
(* State: the heap of clan records, the caller's array, and the arrays the *)
(* successive calls of filterClansByCapacity on that array returned.       *)
(***************************************************************************)
VARIABLES heap, clans, results

filterVars == <<heap, clans, results>>

(***************************************************************************)
(* State of a call of calculateEligibleMembers: the roster row (or null),  *)
(* the member list, and the number returned (null before the call).        *)
(***************************************************************************)
VARIABLES eligRow, eligMembers, eligCount

eligVars == <<eligRow, eligMembers, eligCount>>

(***************************************************************************)
(* State of clashOfClansService.js: whether COC_EMAIL and COC_PASSWORD are *)
(* set, the module variables client and clientInitializing, the promise of *)
(* every login attempt made so far ("pending", "fulfilled", "rejected"),   *)
(* and the calls of initializeCoCClient made from outside the module.  A   *)
(* client object is named by the number of the attempt that created it, a  *)
(* promise by the number of its attempt.                                   *)
(***************************************************************************)
VARIABLES envSet, client, clientInitializing, logins, inits

loginVars == <<envSet, client, clientInitializing, logins, inits>>

(***************************************************************************)
(* The cache of cacheService.js (key -> value; useClones is false, so a    *)
(* cached clan is a reference to the object getClanDetails built), the     *)
(* clan objects built so far (reference -> object), the calls of           *)
(* getClanDetails and the calls of getMultipleClans.                       *)
(***************************************************************************)
VARIABLES cache, objs, tasks, multis

clanVars == <<cache, objs, tasks, multis>>

(***************************************************************************)
(* The calls of getCWLClansFiltered, the calls of getClanStats, the        *)
(* requests GET /api/cwl/clans?all=true being handled, the calls of        *)
(* getClanEligibleMembers and the calls of cacheService.delPattern.        *)
(***************************************************************************)
VARIABLES cwls, statsCalls, alls, eligCalls, patCalls

callVars == <<cwls, statsCalls, alls, eligCalls, patCalls>>

serviceVars == <<loginVars, clanVars, callVars>>

vars == <<filterVars, eligVars, serviceVars>>

\* no array is being filtered
FilterIdle == heap = <<>> /\ clans = <<>> /\ results = <<>>
\* no eligibility is being computed
EligIdle == eligRow = null /\ eligMembers = <<>> /\ eligCount = null
\* the module as loaded: let client = null, let clientInitializing = null
LoginIdle ==
  /\ client = null /\ clientInitializing = null
  /\ logins = <<>> /\ inits = <<>>
\* an empty cache and no call of getClanDetails or getMultipleClans
ClansIdle == cache = <<>> /\ objs = <<>> /\ tasks = <<>> /\ multis = <<>>
\* no call of getCWLClansFiltered, getClanStats, getClanEligibleMembers or
\* delPattern, no request with all=true
CallsIdle ==
  /\ cwls = <<>> /\ statsCalls = <<>> /\ alls = <<>> /\ eligCalls = <<>>
  /\ patCalls = <<>>
\* the services as loaded, with the credentials set
ServiceIdle == envSet = TRUE /\ LoginIdle /\ ClansIdle /\ CallsIdle

InitFilter ==
  /\ \E n \in 0..MaxClans :
       /\ heap \in [1..n -> SampleClans]
       /\ clans = [i \in 1..n |-> i]
  /\ results = <<>>
  /\ EligIdle /\ ServiceIdle

\* a caller runs filterClansByCapacity(clans) and keeps what it returned; the
\* same array is filtered at most twice
CallFilter ==
  /\ Len(results) < 2
  /\ results' = Append(results, filterClansByCapacity(heap, clans))
  /\ clans' = inputAfterFilter(heap, clans)
  /\ heap' = heap
  /\ UNCHANGED <<eligVars, serviceVars>>

NextFilter == CallFilter

SpecFilter == InitFilter /\ [][NextFilter]_vars

(***************************************************************************)
(* Vocabulary of the properties, stated on the roster data themselves.     *)
(***************************************************************************)
\* the references the caller's array holds
Refs == {clans[i] : i \in DOMAIN clans}

InArray(xs, r) == \E i \in DOMAIN xs : xs[i] = r
ElemsOf(xs) == {xs[i] : i \in DOMAIN xs}

\* the format of the roster row, letter case and surrounding blanks aside
FormatIs(clan, word) ==
  clan.sheetData # null /\ trim(toLowerCase(clan.sheetData[1].format)) = word

IsSerious(clan) == FormatIs(clan, Str_serious)
IsLazy(clan) == FormatIs(clan, Str_lazy)
IsOtherFormat(clan) == ~IsSerious(clan) /\ ~IsLazy(clan)

\* eligible members >= requiredMembers
IsFull(clan) ==
  calculateEligibleMembers(clan.sheetData, clan.memberList) >= requiredOf(clan)

\* the roster league when the row has one, else the live league, else "Unknown"
GroupOf(clan) ==
  IF clan.sheetData # null /\ clan.sheetData[1].league # "" THEN clan.sheetData[1].league
  ELSE IF clan.warLeague # null /\ clan.warLeague[1] # "" THEN clan.warLeague[1]
  ELSE "Unknown"

\* the occupancy rank: the row's inUse value, 999 only for a clan without rank
OccupancyRank(clan) ==
  IF clan.sheetData = null THEN 999 ELSE clan.sheetData[1].inUse

\* a call has returned
Called == results # <<>>
\* the array the latest call returned
Returned == results[Len(results)]

Groups == {GroupOf(heap[r]) : r \in Refs}

\* xs with r put behind every clan whose occupancy rank is not greater
RECURSIVE RankInsert(_, _)
RankInsert(xs, r) ==
  IF xs = <<>> THEN <<r>>
  ELSE IF OccupancyRank(heap[xs[Len(xs)]]) <= OccupancyRank(heap[r]) THEN Append(xs, r)
  ELSE Append(RankInsert(SubSeq(xs, 1, Len(xs) - 1), r), xs[Len(xs)])

\* xs in ascending occupancy rank, clans of equal rank in their order in xs
RECURSIVE RankOrder(_)
RankOrder(xs) ==
  IF xs = <<>> THEN <<>>
  ELSE RankInsert(RankOrder(SubSeq(xs, 1, Len(xs) - 1)), xs[Len(xs)])

\* the lazy clans of league g in ascending occupancy rank
LazyChain(g) ==
  LET LazyOfGroup(r) == IsLazy(heap[r]) /\ GroupOf(heap[r]) = g
  IN RankOrder(SelectSeq(clans, LazyOfGroup))

\* C2: within a league, for a lazy clan A that is returned and the next lazy
\* clan B in ascending occupancy rank, B is returned if and only if A's
\* eligible members are at least A's requiredMembers.
C2_ChainInRankOrder ==
  Called => \A g \in Groups :
    LET chain == LazyChain(g)
    IN \A i \in 1..(Len(chain) - 1) :
         InArray(Returned, chain[i]) =>
           (InArray(Returned, chain[i + 1]) <=> IsFull(heap[chain[i]]))

\* C3: the lazy clans of a league that are returned are a prefix of the
\* league's lazy clans in ascending occupancy rank: behind a hidden lazy clan
\* every later lazy clan of the league is hidden too.
C3_VisibleLazyIsPrefix ==
  Called => \A g \in Groups :
    LET chain == LazyChain(g)
    IN \A i, j \in DOMAIN chain :
         (i < j /\ InArray(Returned, chain[j])) => InArray(Returned, chain[i])

\* C4: in each league the lazy clan of smallest occupancy rank (the first of
\* them in the array when several share it) is returned.
C4_FirstLazyVisible ==
  Called => \A g \in Groups :
    LET chain == LazyChain(g)
    IN chain # <<>> => InArray(Returned, chain[1])

\* xs without the reference r
Without(xs, r) == LET Other(x) == x # r IN SelectSeq(xs, Other)

Spellings == {"shout", "plain"}
Spell(f, how) ==
  IF how = "shout" THEN <<" ">> \o [i \in DOMAIN f |-> UpperChar(f[i])] \o <<" ">>
  ELSE trim(toLowerCase(f))

\* the heap with the format of every roster row written the other way
Respelled(h, how) ==
  [r \in DOMAIN h |->
     IF h[r].sheetData = null THEN h[r]
     ELSE [h[r] EXCEPT !.sheetData = Some([@[1] EXCEPT !.format = Spell(@, how)])]]

ClansOfGroup(g) == LET InGroup(r) == GroupOf(heap[r]) = g IN SelectSeq(clans, InGroup)

C8_ResultAscendingByRank ==
  Called => \A i, j \in DOMAIN Returned :
    OccupancyRank(heap[Returned[i]]) < OccupancyRank(heap[Returned[j]]) => i < j

\* the number of times r occurs in xs
Occurrences(xs, r) == Cardinality({i \in DOMAIN xs : xs[i] = r})

\* a returned array holds clans of the caller's array only, none more often
\* than the caller's array does
SelectsFromInput ==
  Called => \A i \in DOMAIN Returned :
    /\ Returned[i] \in Refs
    /\ Occurrences(Returned, Returned[i]) <= Occurrences(clans, Returned[i])

VisibleLazyChain(g) ==
  LET Shown(r) == InArray(Returned, r) IN SelectSeq(LazyChain(g), Shown)

\* C27: of the returned lazy clans of a league at most one is not full, and
\* that one is the last of them in ascending occupancy rank: no lazy clan is
\* returned behind a returned lazy clan of its league that is not full.
C27_OpenLazyClanIsLast ==
  Called => \A g \in Groups :
    LET shown == VisibleLazyChain(g)
    IN /\ Cardinality({i \in DOMAIN shown : ~IsFull(heap[shown[i]])}) <= 1
       /\ \A i \in DOMAIN shown : ~IsFull(heap[shown[i]]) => i = Len(shown)

(***************************************************************************)
(* filterClansByCapacity on lazy clans of one league whose roster row has  *)
(* a "Members" cell that is empty, holds a word, or holds a number.        *)
(***************************************************************************)
\* lazy clans of ranks 0 to 2 with no, a worded and a numeric requirement,
\* and with no or three eligible members
GateClans ==
  { MergedClan(Row(u, Str_lazy, m, Str_TH2, "Master 2"), null, ml) :
      u \in {0, 1, 2},
      m \in { <<>>, <<"a","b","c">>, <<"2">> },
      ml \in { <<>>, <<2, 2, 2>> } }

InitGate ==
  /\ \E n \in 0..MaxClans :
       /\ heap \in [1..n -> GateClans]
       /\ clans = [i \in 1..n |-> i]
  /\ results = <<>>
  /\ EligIdle /\ ServiceIdle

SpecGate == InitGate /\ [][NextFilter]_vars

\* the "Members" cell of the clan's roster row holds no digit
MembersUnparseable(clan) ==
  /\ clan.sheetData # null
  /\ \A i \in DOMAIN clan.sheetData[1].members : ~IsDigit(clan.sheetData[1].members[i])

\* C26: a call returns for every array, rows with an unparseable "Members"
\* cell included; a returned lazy clan with such a row requires 0 members and
\* so is full whatever its eligible members, and the next lazy clan of its
\* league in ascending occupancy rank is returned too.
C26_UnparseableMembersCountAsFull ==
  Called => \A g \in Groups :
    LET chain == LazyChain(g)
    IN \A i \in DOMAIN chain :
         (InArray(Returned, chain[i]) /\ MembersUnparseable(heap[chain[i]]))
           => /\ requiredOf(heap[chain[i]]) = 0
              /\ IsFull(heap[chain[i]])
              /\ i < Len(chain) => InArray(Returned, chain[i + 1])

\* a call has returned a lazy clan without eligible members whose "Members"
\* cell holds a word, and the lazy clan of the next rank behind it; a clan of
\* a higher rank is hidden behind that one
C26_Witness ==
  /\ Called
  /\ \E a, b, c \in Refs :
       /\ OccupancyRank(heap[a]) = 1 /\ OccupancyRank(heap[b]) = 2
       /\ heap[a].sheetData[1].members = <<"a","b","c">>
       /\ heap[a].memberList = <<>>
       /\ heap[b].sheetData[1].members = <<"2">> /\ heap[b].memberList = <<>>
       /\ OccupancyRank(heap[c]) = 2 /\ b < c
       /\ InArray(Returned, a) /\ InArray(Returned, b) /\ ~InArray(Returned, c)

(***************************************************************************)
(* calculateEligibleMembers on its own.  The rule texts are the kinds the  *)
(* roster's "Town Hall" column holds, each with the numbers its            *)
(* "TH<number>" patterns spell out:                                        *)
(***************************************************************************)
\*   ""                   {}
\*   "any"                {}
\*   "below"              {}
\*   "TH and below"       {}
\*   "16"                 {}
\*   "TH15"               {15}
\*   "th 16"              {16}
\*   "Th17, Th15"         {17, 15}
\*   "TH16 and below"     {16}
\*   "TH15, TH17 Below"   {15, 17}
RuleSamples ==
  << [text |-> <<>>,
      numbers |-> {}],
     [text |-> <<"a","n","y">>,
      numbers |-> {}],
     [text |-> <<"b","e","l","o","w">>,
      numbers |-> {}],
     [text |-> <<"T","H"," ","a","n","d"," ","b","e","l","o","w">>,
      numbers |-> {}],
     [text |-> <<"1","6">>,
      numbers |-> {}],
     [text |-> <<"T","H","1","5">>,
      numbers |-> {15}],
     [text |-> <<"t","h"," ","1","6">>,
      numbers |-> {16}],
     [text |-> <<"T","h","1","7",","," ","T","h","1","5">>,
      numbers |-> {17, 15}],
     [text |-> <<"T","H","1","6"," ","a","n","d"," ","b","e","l","o","w">>,
      numbers |-> {16}],
     [text |-> <<"T","H","1","5",","," ","T","H","1","7"," ","B","e","l","o","w">>,
      numbers |-> {15, 17}] >>

RuleTexts == {RuleSamples[i].text : i \in DOMAIN RuleSamples}

\* the roster rows a rule is read from, and null for a clan without a row
SampleRules ==
  {null} \cup {Row(1, Str_lazy, <<"1">>, t, "") : t \in RuleTexts}

\* member.townHallLevel || 0 of getClanDetails: 0 for a missing level
Levels == {0, 15, 16, 17, 18}

MaxMembers == 3

MemberLists == UNION {[1..n -> Levels] : n \in 0..MaxMembers}

InitEligible ==
  /\ eligRow \in SampleRules
  /\ eligMembers \in MemberLists
  /\ eligCount = null
  /\ FilterIdle /\ ServiceIdle

\* a caller runs calculateEligibleMembers(sheetData, memberList)
CallEligible ==
  /\ eligCount = null
  /\ eligCount' = Some(calculateEligibleMembers(eligRow, eligMembers))
  /\ UNCHANGED <<eligRow, eligMembers, filterVars, serviceVars>>

NextEligible == CallEligible

SpecEligible == InitEligible /\ [][NextEligible]_vars

\* the text of the rule of the call, '' without a row
RuleText == IF eligRow = null THEN <<>> ELSE eligRow[1].townHall

\* the numbers the "TH<number>" patterns of the rule spell out
RuleNumbers ==
  IF eligRow = null THEN {}
  ELSE (CHOOSE x \in ElemsOf(RuleSamples) : x.text = RuleText).numbers

\* the rule holds the word "below", in any letter case
SaysBelow ==
  \E i \in 1..Len(RuleText) :
    /\ i + 4 <= Len(RuleText)
    /\ \A k \in 0..4 :
         RuleText[i + k] \in {<<"b","e","l","o","w">>[k + 1],
                              <<"B","E","L","O","W">>[k + 1]}

SetMax(S) == CHOOSE x \in S : \A y \in S : y <= x
SetMin(S) == CHOOSE x \in S : \A y \in S : x <= y

\* how many members have a level in the set S
MembersWithLevelIn(S) ==
  Cardinality({i \in DOMAIN eligMembers : eligMembers[i] \in S})

\* C11: for a rule with the word "below" and at least one number, the call
\* returns the number of members whose level is at most the largest number
C11_BelowCountsUpToMax ==
  (eligCount # null /\ SaysBelow /\ RuleNumbers # {})
    => eligCount[1] = MembersWithLevelIn({l \in Levels : l <= SetMax(RuleNumbers)})

\* a "below" rule with two numbers, the smaller one first, was applied to a
\* member between the two numbers and a member above both
C11_Witness ==
  /\ eligCount # null /\ SaysBelow
  /\ Cardinality(RuleNumbers) = 2
  /\ \E i, j \in DOMAIN eligMembers :
       /\ eligMembers[i] > SetMin(RuleNumbers)
       /\ eligMembers[i] <= SetMax(RuleNumbers)
       /\ eligMembers[j] > SetMax(RuleNumbers)
  /\ eligCount[1] >= 1

\* C12: for a rule without "below" and with exactly one number k, the call
\* returns the number of members whose level is exactly k
C12_SingleCountsExact ==
  (eligCount # null /\ ~SaysBelow /\ Cardinality(RuleNumbers) = 1)
    => eligCount[1] = MembersWithLevelIn(RuleNumbers)

\* a one-number rule was applied to a member at the number, a member below
\* it and a member above it
C12_Witness ==
  /\ eligCount # null /\ ~SaysBelow
  /\ \E k \in RuleNumbers :
       /\ RuleNumbers = {k}
       /\ \E a, b, c \in DOMAIN eligMembers :
            eligMembers[a] = k /\ eligMembers[b] < k /\ eligMembers[c] > k
  /\ eligCount[1] = 1

\* C13: for a rule without "below" and with two or more numbers, the call
\* returns the number of members whose level lies between the smallest and
\* the largest number, both included, listed or not
C13_ListCountsRange ==
  (eligCount # null /\ ~SaysBelow /\ Cardinality(RuleNumbers) >= 2)
    => eligCount[1] =
         MembersWithLevelIn({l \in Levels : /\ l >= SetMin(RuleNumbers)
                                            /\ l <= SetMax(RuleNumbers)})

\* a list rule was applied to a member whose level the rule does not list
\* but encloses, and to a member below the range
C13_Witness ==
  /\ eligCount # null /\ ~SaysBelow
  /\ Cardinality(RuleNumbers) >= 2
  /\ \E i, j \in DOMAIN eligMembers :
       /\ eligMembers[i] \notin RuleNumbers
       /\ eligMembers[i] > SetMin(RuleNumbers)
       /\ eligMembers[i] < SetMax(RuleNumbers)
       /\ eligMembers[j] < SetMin(RuleNumbers)
  /\ eligCount[1] >= 1

\* C14: without a number to read (no row, an empty rule, no "TH<number>"
\* pattern, with or without "below") the call returns 0 for every member list
C14_NoNumberGivesZero ==
  (eligCount # null /\ RuleNumbers = {}) => eligCount[1] = 0

\* a rule with the word "below" and no number was applied to three members
C14_Witness ==
  /\ eligCount = Some(0)
  /\ eligRow # null /\ SaysBelow /\ RuleNumbers = {}
  /\ Len(eligMembers) = 3

(***************************************************************************)
(* The services.  A step of the model is one turn of the event loop: the   *)
(* synchronous code of a call up to its first await, or the settling of an *)
(* upstream request or timer together with every continuation the settled  *)
(* promise resumes.  The operators below take the state of the services as *)
(* a record w and return the state after the code they name has run.       *)
(***************************************************************************)
World ==
  [envSet |-> envSet, client |-> client,
   clientInitializing |-> clientInitializing, logins |-> logins,
   inits |-> inits, cache |-> cache, objs |-> objs, tasks |-> tasks,
   multis |-> multis, cwls |-> cwls, statsCalls |-> statsCalls,
   alls |-> alls, eligCalls |-> eligCalls, patCalls |-> patCalls]

\* the services move to state w; nothing else changes
Commit(w) ==
  /\ envSet' = w.envSet
  /\ client' = w.client
  /\ clientInitializing' = w.clientInitializing
  /\ logins' = w.logins
  /\ inits' = w.inits
  /\ cache' = w.cache
  /\ objs' = w.objs
  /\ tasks' = w.tasks
  /\ multis' = w.multis
  /\ cwls' = w.cwls
  /\ statsCalls' = w.statsCalls
  /\ alls' = w.alls
  /\ eligCalls' = w.eligCalls
  /\ patCalls' = w.patCalls
  /\ UNCHANGED <<filterVars, eligVars>>

MaxLogins == 3
MaxInits == 6

\* initializeCoCClient without the clientInitializing test of lines 30-32
initializeCoCClientNoGuard(w) ==
  IF ~w.envSet THEN [how |-> "throws", promise |-> 0]
  ELSE IF w.client # null THEN [how |-> "client", promise |-> w.client[1]]
  ELSE [how |-> "login", promise |-> Len(w.logins) + 1]

\* the synchronous part of initializeCoCClient(): what the call does and the
\* login promise it ends up awaiting
initializeCoCClient(w) ==
  IF ~w.envSet THEN [how |-> "throws", promise |-> 0]
  ELSE IF w.client # null THEN [how |-> "client", promise |-> w.client[1]]
  ELSE IF w.clientInitializing # null
    THEN [how |-> "awaits", promise |-> w.clientInitializing[1]]
  ELSE [how |-> "login", promise |-> Len(w.logins) + 1]

\* the module after the call: clientInitializing = (async () => ...)() ran
\* new Client(...) and newClient.login(...) up to the await
callInitialize(w) ==
  IF initializeCoCClient(w).how = "login"
    THEN [w EXCEPT !.logins = Append(@, "pending"),
                   !.clientInitializing = Some(Len(w.logins) + 1)]
    ELSE w

\* an attempt may be started while fewer than MaxLogins were
MayLogin(w) == initializeCoCClient(w).how = "login" => Len(w.logins) < MaxLogins

\* the module after a call whose new Client(...) throws: the catch block sets
\* client = null and the finally block clientInitializing = null while the
\* async function is still running; the rejected promise it returns is then
\* assigned to clientInitializing
callInitializeClientThrows(w) ==
  [w EXCEPT !.logins = Append(@, "rejected"),
            !.client = null,
            !.clientInitializing = Some(Len(w.logins) + 1)]

\* the call of initializeCoCClient as its caller holds it once the turn has
\* ended in the module state w: a call that awaits a rejected promise has
\* received the rejection
InitCall(w, r) ==
  [pc |-> CASE r.how = "throws" -> "rejected"
            [] r.how = "client" -> "fulfilled"
            [] w.logins[r.promise] = "rejected" -> "rejected"
            [] OTHER -> "awaiting",
   promise |-> r.promise,
   value |-> IF r.how = "client" THEN Some(r.promise) ELSE null]

\* the pending login settles: on success client = newClient, on failure the
\* catch block sets client = null; the finally block clears
\* clientInitializing; every call awaiting the promise resumes, and a
\* getClanDetails that receives the client issues cocClient.getClan(tag)
loginSettles(w, ok) ==
  LET n == w.clientInitializing[1]
  IN [w EXCEPT
        !.logins[n] = IF ok THEN "fulfilled" ELSE "rejected",
        !.client = IF ok THEN Some(n) ELSE null,
        !.clientInitializing = null,
        !.inits = [i \in DOMAIN w.inits |->
                     IF w.inits[i].pc = "awaiting" /\ w.inits[i].promise = n
                       THEN [w.inits[i] EXCEPT
                               !.pc = IF ok THEN "fulfilled" ELSE "rejected",
                               !.value = IF ok THEN Some(n) ELSE null]
                       ELSE w.inits[i]],
        !.tasks = [t \in DOMAIN w.tasks |->
                     IF w.tasks[t].pc = "awaitInit" /\ w.tasks[t].promise = n
                       THEN [w.tasks[t] EXCEPT
                               !.pc = IF ok THEN "fetching" ELSE "rejected"]
                       ELSE w.tasks[t]]]

(***************************************************************************)
(* cacheService, getClanDetails and getMultipleClans.                      *)
(***************************************************************************)
REQUEST_POOL_SIZE == 5

\* cacheService.get(key): null stands for undefined
cacheGet(c, key) == IF key \in DOMAIN c THEN Some(c[key]) ELSE null

\* cacheService.set(key, value, ttl)
cacheSet(c, key, value) ==
  [k \in DOMAIN c \cup {key} |-> IF k = key THEN value ELSE c[k]]

\* pattern.replace('*', '.*'): a string pattern replaces the first '*' only
replaceStar(pattern) ==
  IF \E i \in DOMAIN pattern : pattern[i] = "*"
    THEN LET i == CHOOSE i \in DOMAIN pattern :
                    pattern[i] = "*" /\ \A j \in 1..(i - 1) : pattern[j] # "*"
         IN SubSeq(pattern, 1, i - 1) \o <<".", "*">>
              \o SubSeq(pattern, i + 1, Len(pattern))
    ELSE pattern

\* the regular expression re, from its element k on, matches s from position
\* i on; re is made of characters, of '.' for any character, and of 'x*'
RECURSIVE regexMatchAt(_, _, _, _)
regexMatchAt(re, k, s, i) ==
  IF k > Len(re) THEN TRUE
  ELSE LET fits == i <= Len(s) /\ (re[k] = "." \/ re[k] = s[i])
       IN IF k < Len(re) /\ re[k + 1] = "*"
            THEN \/ regexMatchAt(re, k + 2, s, i)
                 \/ fits /\ regexMatchAt(re, k, s, i + 1)
            ELSE fits /\ regexMatchAt(re, k + 1, s, i + 1)

\* new RegExp(re).test(s): a match may start anywhere in s
regexTest(re, s) == \E i \in 1..(Len(s) + 1) : regexMatchAt(re, 1, s, i)

\* cacheService.delPattern(pattern): the matching keys are deleted and
\* counted
delPattern(w, pattern) ==
  LET regex == replaceStar(pattern)
      matchingKeys == {key \in DOMAIN w.cache : regexTest(regex, key)}
  IN [w EXCEPT
        !.cache = [k \in DOMAIN w.cache \ matchingKeys |-> w.cache[k]],
        !.patCalls = Append(@, [pattern |-> pattern,
                                before |-> DOMAIN w.cache,
                                after |-> DOMAIN w.cache \ matchingKeys,
                                deleted |-> Cardinality(matchingKeys)])]

\* clanTag.startsWith('#') ? clanTag : `#${clanTag}`
formattedTag(clanTag) ==
  IF Len(clanTag) >= 1 /\ clanTag[1] = "#" THEN clanTag ELSE <<"#">> \o clanTag

\* `clan:${formattedTag}`
clanKey(tag) == <<"c","l","a","n",":">> \o tag

\* x || 0 for a number of the API that may be missing
OrZero(x) == IF x = null THEN 0 ELSE x[1]

\* the tags of the sample clans
Tag(n) == <<"#", DigitChars[n + 1]>>
Str_YOUR_CLAN_TAG ==
  <<"#","Y","O","U","R","_","C","L","A","N","_","T","A","G">>

\* the clan the API holds for a tag: clan #1 has three members, one of them
\* without townHallLevel and donations, the other clans have none; the API
\* spells a tag in capitals, however the request spelled it
ApiClan(tag) ==
  [tag |-> toUpperCase(tag),
   warLeague |-> IF tag = Tag(1) THEN Some("Master 2") ELSE null,
   members |->
     IF tag = Tag(1)
       THEN << [name |-> "a", townHallLevel |-> Some(2),
                trophies |-> Some(10), donations |-> Some(7)],
               [name |-> "b", townHallLevel |-> null,
                trophies |-> Some(30), donations |-> null],
               [name |-> "c", townHallLevel |-> Some(2),
                trophies |-> Some(20), donations |-> Some(9)] >>
       ELSE <<>>]

\* clanData of getClanDetails, reduced to tag, warLeague name and memberList
clanData(clan) ==
  [tag |-> clan.tag,
   warLeague |-> clan.warLeague,
   memberList |->
     [i \in DOMAIN clan.members |->
        [name |-> clan.members[i].name,
         townHallLevel |-> OrZero(clan.members[i].townHallLevel),
         trophies |-> OrZero(clan.members[i].trophies),
         donations |-> OrZero(clan.members[i].donations)]]]

\* getClanDetails(clanTag) up to the request it leaves in flight: a cache hit
\* fulfils with the cached object; otherwise initializeCoCClient() throws,
\* returns the client (the call then issues cocClient.getClan), or leaves the
\* call awaiting a login
startClanDetails(w, clanTag) ==
  LET tag == formattedTag(clanTag)
      cached == cacheGet(w.cache, clanKey(tag))
      r == initializeCoCClient(w)
  IN IF cached # null
       THEN [w EXCEPT !.tasks = Append(@, [tag |-> tag, pc |-> "fulfilled",
                                           promise |-> 0, ref |-> cached[1]])]
       ELSE [callInitialize(w) EXCEPT
               !.tasks = Append(@, [tag |-> tag,
                                    pc |-> CASE r.how = "throws" -> "rejected"
                                             [] r.how = "client" -> "fetching"
                                             [] OTHER -> "awaitInit",
                                    promise |-> r.promise, ref |-> 0])]

\* cocClient.getClan(tag) of call t fulfils: clanData is built, cached under
\* clan:<tag> and returned; the new object is named by the number of the call
clanFetched(w, t) ==
  LET tag == w.tasks[t].tag
  IN [w EXCEPT !.objs = cacheSet(@, t, clanData(ApiClan(tag))),
               !.cache = cacheSet(@, clanKey(tag), t),
               !.tasks[t].pc = "fulfilled",
               !.tasks[t].ref = t]

\* cocClient.getClan(tag) of call t rejects: the catch block rethrows
clanFetchFails(w, t) == [w EXCEPT !.tasks[t].pc = "rejected"]

Settled(task) == task.pc \in {"fulfilled", "rejected"}

\* clanTags.filter(tag => tag && tag !== '#YOUR_CLAN_TAG')
validTags(clanTags) ==
  LET Valid(tag) == tag # <<>> /\ tag # Str_YOUR_CLAN_TAG
  IN SelectSeq(clanTags, Valid)

\* xs.slice(i, j) for 0 <= i <= j
slice(xs, i, j) ==
  SubSeq(xs, i + 1, IF j < Len(xs) THEN j ELSE Len(xs))

\* results.filter(Boolean): the clan objects, the nulls dropped
filterBoolean(xs) ==
  LET NotNull(x) == x # null
      kept == SelectSeq(xs, NotNull)
  IN [k \in DOMAIN kept |-> kept[k][1]]

\* batch.map(tag => getClanDetails(tag).catch(...)): the calls are started one
\* after the other
RECURSIVE startBatch(_, _)
startBatch(w, batch) ==
  IF batch = <<>> THEN w
  ELSE startBatch(startClanDetails(w, Head(batch)), Tail(batch))

\* one iteration of the for loop of call m, up to await Promise.all: ids
\* gains the calls of getClanDetails of the batch that starts at index i
issueBatch(w, m) ==
  LET batch == slice(w.multis[m].tags, w.multis[m].i,
                     w.multis[m].i + REQUEST_POOL_SIZE)
  IN [startBatch(w, batch) EXCEPT
        !.multis[m].pc = "batch",
        !.multis[m].ids = @ \o [k \in 1..Len(batch) |-> Len(w.tasks) + k]]

\* getMultipleClans(clanTags) up to its first await
callMultipleClans(w, clanTags) ==
  LET call == [arg |-> clanTags, tags |-> validTags(clanTags), i |-> 0,
               ids |-> <<>>, results |-> <<>>, pc |-> "fulfilled",
               value |-> <<>>]
      w1 == [w EXCEPT !.multis = Append(@, call)]
  IN IF call.tags = <<>> THEN w1 ELSE issueBatch(w1, Len(w1.multis))

\* a call without .catch on getClanDetails(tag): Promise.all rejects with the
\* first rejection and the call rejects
multiAfterBatchNoCatch(ts, mm) ==
  IF mm.pc = "batch" /\ \E k \in (mm.i + 1)..Len(mm.ids) : ts[mm.ids[k]].pc = "rejected"
    THEN [mm EXCEPT !.pc = "rejected"]
  ELSE IF mm.pc = "batch" /\ \A k \in (mm.i + 1)..Len(mm.ids) : Settled(ts[mm.ids[k]])
    THEN LET pushed == mm.results \o
                          [k \in 1..(Len(mm.ids) - mm.i) |-> Some(ts[mm.ids[mm.i + k]].ref)]
         IN IF mm.i + REQUEST_POOL_SIZE < Len(mm.tags)
              THEN [mm EXCEPT !.results = pushed, !.pc = "delay"]
              ELSE [mm EXCEPT !.results = pushed, !.pc = "fulfilled",
                              !.value = filterBoolean(pushed)]
  ELSE mm

\* a call that awaits its batch with Promise.race: it goes on once one
\* getClanDetails of the batch settled
multiAfterBatchRace(ts, mm) ==
  IF mm.pc = "batch" /\ \E k \in (mm.i + 1)..Len(mm.ids) : Settled(ts[mm.ids[k]])
    THEN LET pushed == mm.results \o
                          [k \in 1..(Len(mm.ids) - mm.i) |->
                             IF ts[mm.ids[mm.i + k]].pc = "fulfilled"
                               THEN Some(ts[mm.ids[mm.i + k]].ref) ELSE null]
         IN IF mm.i + REQUEST_POOL_SIZE < Len(mm.tags)
              THEN [mm EXCEPT !.results = pushed, !.pc = "delay"]
              ELSE [mm EXCEPT !.results = pushed, !.pc = "fulfilled",
                              !.value = filterBoolean(pushed)]
  ELSE mm

\* the call mm once every getClanDetails of its batch settled: a rejection
\* counts as null, the batch results are pushed, and the call sets the 100 ms
\* timer if tags remain, and returns results.filter(Boolean) otherwise
multiAfterBatch(ts, mm) ==
  IF mm.pc = "batch" /\ \A k \in (mm.i + 1)..Len(mm.ids) : Settled(ts[mm.ids[k]])
    THEN LET pushed == mm.results \o
                          [k \in 1..(Len(mm.ids) - mm.i) |->
                             IF ts[mm.ids[mm.i + k]].pc = "fulfilled"
                               THEN Some(ts[mm.ids[mm.i + k]].ref) ELSE null]
         IN IF mm.i + REQUEST_POOL_SIZE < Len(mm.tags)
              THEN [mm EXCEPT !.results = pushed, !.pc = "delay"]
              ELSE [mm EXCEPT !.results = pushed, !.pc = "fulfilled",
                              !.value = filterBoolean(pushed)]
  ELSE mm

\* the timer of call m fires: i += REQUEST_POOL_SIZE and the next iteration
timerFires(w, m) ==
  issueBatch([w EXCEPT !.multis[m].i = @ + REQUEST_POOL_SIZE], m)

\* the calls of getMultipleClans after the continuations that the settled
\* getClanDetails promises resume
advanceMultis(w) ==
  [w EXCEPT !.multis = [m \in DOMAIN w.multis |->
                          multiAfterBatch(w.tasks, w.multis[m])]]

(***************************************************************************)
(* fetchCWLClansDetailsFromSheet and getCWLClansFiltered.  A sheet is the  *)
(* parsed CSV: one record of cell texts per data row.                      *)
(***************************************************************************)
Str_cwl_filtered_clans ==
  <<"c","w","l",":","f","i","l","t","e","r","e","d","-","c","l","a","n","s">>
Str_sheets_cwl_clans_details ==
  <<"s","h","e","e","t","s",":","c","w","l","-",
    "c","l","a","n","s","-","d","e","t","a","i","l","s">>
Str_VALUE == <<"#","V","A","L","U","E","!">>

\* the filter of fetchCWLClansDetailsFromSheet: a row needs a numeric
\* "In Use" and a clan tag
validRow(row) ==
  /\ row.inUse # <<>> /\ ~parseIntIsNaN(row.inUse)
  /\ row.clanTag # <<>>
  /\ ~includes(row.clanTag, Str_VALUE)
  /\ trim(row.clanTag) # <<>>

\* the map of fetchCWLClansDetailsFromSheet: the roster row of a sheet row
sheetRow(row) ==
  [inUse |-> parseInt(row.inUse),
   tag |-> formattedTag(trim(row.clanTag)),
   format |-> row.format,
   members |-> row.members,
   townHall |-> row.townHall,
   league |-> row.league]

\* .sort((a, b) => a.inUse - b.inUse) on roster rows (stable)
RECURSIVE sortRows(_)
sortRows(rows) ==
  IF rows = <<>> THEN <<>>
  ELSE LET init == sortRows(SubSeq(rows, 1, Len(rows) - 1))
           last == rows[Len(rows)]
           Before(r) == r.inUse - last.inUse <= 0
           After(r) == ~Before(r)
       IN SelectSeq(init, Before) \o <<last>> \o SelectSeq(init, After)

\* validClans of fetchCWLClansDetailsFromSheet
validClans(sheet) ==
  LET kept == SelectSeq(sheet, validRow)
  IN sortRows([k \in DOMAIN kept |-> sheetRow(kept[k])])

\* the last row with the tag instead of the first
sheetInfoLastMatch(details, tag) ==
  IF \E k \in DOMAIN details : details[k].tag = tag
    THEN Some(details[CHOOSE k \in DOMAIN details :
                        /\ details[k].tag = tag
                        /\ \A j \in (k + 1)..Len(details) : details[j].tag # tag])
    ELSE null

\* detailsFromSheet.find(detail => detail.tag === clan.tag) || null
sheetInfo(details, tag) ==
  IF \E k \in DOMAIN details : details[k].tag = tag
    THEN Some(details[CHOOSE k \in DOMAIN details :
                        /\ details[k].tag = tag
                        /\ \A j \in 1..(k - 1) : details[j].tag # tag])
    ELSE null

\* one element of mergedData; the filter reads a member as its townHallLevel
mergedClan(details, clan) ==
  LET levels == [i \in DOMAIN clan.memberList |-> clan.memberList[i].townHallLevel]
  IN [tag |-> clan.tag,
      sheetData |-> sheetInfo(details, clan.tag),
      warLeague |-> clan.warLeague,
      memberList |-> levels,
      eligibleMembers |-> calculateEligibleMembers(sheetInfo(details, clan.tag), levels)]

\* filteredClans of getCWLClansFiltered for the fetched clan objects
filteredClans(w, details, fetched) ==
  LET mergedData == [k \in DOMAIN fetched |-> mergedClan(details, w.objs[fetched[k]])]
      visible == filterClansByCapacity(mergedData, [k \in DOMAIN fetched |-> k])
  IN [k \in DOMAIN visible |-> mergedData[visible[k]]]

\* call c rejects with an error
cwlThrows(w, c, message) ==
  [w EXCEPT !.cwls[c].pc = "rejected", !.cwls[c].error = message]

\* call c holds detailsFromSheet: it throws for an empty roster, and calls
\* getMultipleClans(clanTags) otherwise
cwlWithDetails(w, c, details) ==
  IF Len(details) = 0
    THEN cwlThrows([w EXCEPT !.cwls[c].details = Some(details)], c,
                   "No CWL clans found in Google Sheets")
    ELSE LET w1 == callMultipleClans(w, [k \in DOMAIN details |-> details[k].tag])
         IN [w1 EXCEPT !.cwls[c].pc = "clans",
                       !.cwls[c].details = Some(details),
                       !.cwls[c].multi = Len(w1.multis)]

\* getCWLClansFiltered that looks for no cached list
callCwlNoCacheCheck(w) ==
  LET c == Len(w.cwls) + 1
      call == [pc |-> "sheet", details |-> null, multi |-> 0,
               value |-> <<>>, error |-> ""]
      cachedSheet == cacheGet(w.cache, Str_sheets_cwl_clans_details)
      w1 == [w EXCEPT !.cwls = Append(@, call)]
  IN IF cachedSheet # null THEN cwlWithDetails(w1, c, cachedSheet[1])
     ELSE w1

\* getCWLClansFiltered() up to its first pending await: a cached list is
\* returned; otherwise fetchCWLClansDetailsFromSheet() returns the cached
\* roster or leaves its fetch(url) in flight
callCwl(w) ==
  LET c == Len(w.cwls) + 1
      call == [pc |-> "sheet", details |-> null, multi |-> 0,
               value |-> <<>>, error |-> ""]
      cached == cacheGet(w.cache, Str_cwl_filtered_clans)
      cachedSheet == cacheGet(w.cache, Str_sheets_cwl_clans_details)
      w1 == [w EXCEPT !.cwls = Append(@, call)]
  IN IF cached # null
       THEN [w1 EXCEPT !.cwls[c].pc = "fulfilled", !.cwls[c].value = cached[1]]
     ELSE IF cachedSheet # null THEN cwlWithDetails(w1, c, cachedSheet[1])
     ELSE w1

\* the fetch(url) of call c answers with a sheet: validClans is cached and
\* returned
sheetFetched(w, c, sheet) ==
  cwlWithDetails([w EXCEPT !.cache = cacheSet(@, Str_sheets_cwl_clans_details,
                                              validClans(sheet))],
                 c, validClans(sheet))

\* the fetch(url) of call c fails or answers with !response.ok
sheetFetchFails(w, c) == cwlThrows(w, c, "Failed to fetch Google Sheets data")

\* call c past await getMultipleClans without the test of
\* fetchedClans.length: an empty result is merged, filtered and cached
cwlAfterClansNoThrow(w, c) ==
  IF w.cwls[c].pc = "clans" /\ w.multis[w.cwls[c].multi].pc = "fulfilled"
    THEN LET fetched == w.multis[w.cwls[c].multi].value
             list == filteredClans(w, w.cwls[c].details[1], fetched)
         IN [w EXCEPT !.cache = cacheSet(@, Str_cwl_filtered_clans, list),
                      !.cwls[c].pc = "fulfilled",
                      !.cwls[c].value = list]
    ELSE w

\* call c past await getMultipleClans keeping the list another call has
\* cached meanwhile instead of overwriting it
cwlAfterClansKeepFirst(w, c) ==
  IF w.cwls[c].pc = "clans" /\ w.multis[w.cwls[c].multi].pc = "fulfilled"
    THEN LET fetched == w.multis[w.cwls[c].multi].value
             list == filteredClans(w, w.cwls[c].details[1], fetched)
         IN IF Len(fetched) = 0
              THEN cwlThrows(w, c, "No clan data could be fetched from CoC API")
              ELSE [w EXCEPT !.cache =
                               IF Str_cwl_filtered_clans \in DOMAIN @
                                 THEN @
                                 ELSE cacheSet(@, Str_cwl_filtered_clans, list),
                             !.cwls[c].pc = "fulfilled",
                             !.cwls[c].value = list]
    ELSE w

\* call c once its getMultipleClans fulfilled: it throws for an empty
\* result; otherwise it merges, filters, caches and returns the list
cwlAfterClans(w, c) ==
  IF w.cwls[c].pc = "clans" /\ w.multis[w.cwls[c].multi].pc = "fulfilled"
    THEN LET fetched == w.multis[w.cwls[c].multi].value
             list == filteredClans(w, w.cwls[c].details[1], fetched)
         IN IF Len(fetched) = 0
              THEN cwlThrows(w, c, "No clan data could be fetched from CoC API")
              ELSE [w EXCEPT !.cache = cacheSet(@, Str_cwl_filtered_clans, list),
                             !.cwls[c].pc = "fulfilled",
                             !.cwls[c].value = list]
    ELSE w

\* the calls of getCWLClansFiltered from call c on resume in turn
RECURSIVE advanceCwls(_, _)
advanceCwls(w, c) ==
  IF c > Len(w.cwls) THEN w ELSE advanceCwls(cwlAfterClans(w, c), c + 1)

(***************************************************************************)
(* GET /api/cwl/clans?all=true (src/routes/cwl.js).  A request that the    *)
(* handler answers with status 500 is "rejected".                          *)
(***************************************************************************)
\* request a is answered with status 500 and the error's message
allThrows(w, a, message) ==
  [w EXCEPT !.alls[a].pc = "rejected", !.alls[a].error = message]

\* request a holds detailsFromSheet: the handler throws for an empty roster,
\* and calls getMultipleClans(clanTags) otherwise
allWithDetails(w, a, details) ==
  IF Len(details) = 0
    THEN allThrows([w EXCEPT !.alls[a].details = Some(details)], a,
                   "No CWL clans found in Google Sheets")
    ELSE LET w1 == callMultipleClans(w, [k \in DOMAIN details |-> details[k].tag])
         IN [w1 EXCEPT !.alls[a].pc = "clans",
                       !.alls[a].details = Some(details),
                       !.alls[a].multi = Len(w1.multis)]

\* the handler up to its first pending await: fetchCWLClansDetailsFromSheet()
\* returns the cached roster or leaves its fetch(url) in flight
callAll(w) ==
  LET a == Len(w.alls) + 1
      call == [pc |-> "sheet", details |-> null, multi |-> 0,
               value |-> null, error |-> ""]
      cachedSheet == cacheGet(w.cache, Str_sheets_cwl_clans_details)
      w1 == [w EXCEPT !.alls = Append(@, call)]
  IN IF cachedSheet # null THEN allWithDetails(w1, a, cachedSheet[1])
     ELSE w1

\* the fetch(url) of request a answers with a sheet: validClans is cached and
\* returned
allSheetFetched(w, a, sheet) ==
  allWithDetails([w EXCEPT !.cache = cacheSet(@, Str_sheets_cwl_clans_details,
                                              validClans(sheet))],
                 a, validClans(sheet))

\* the fetch(url) of request a fails or answers with !response.ok
allSheetFetchFails(w, a) == allThrows(w, a, "Failed to fetch Google Sheets data")

\* the response of a handler that hands mergedData to filterClansByCapacity
allResponseFiltered(w, details, fetched) ==
  [count |-> Len(filteredClans(w, details, fetched)),
   clans |-> filteredClans(w, details, fetched),
   filtered |-> FALSE]

\* res.json({ count: mergedData.length, clans: mergedData, filtered: false })
allResponse(w, details, fetched) ==
  LET mergedData == [k \in DOMAIN fetched |-> mergedClan(details, w.objs[fetched[k]])]
  IN [count |-> Len(mergedData), clans |-> mergedData, filtered |-> FALSE]

\* request a once its getMultipleClans fulfilled: the handler throws for an
\* empty result; otherwise it merges and responds
allAfterClans(w, a) ==
  IF w.alls[a].pc = "clans" /\ w.multis[w.alls[a].multi].pc = "fulfilled"
    THEN LET fetched == w.multis[w.alls[a].multi].value
         IN IF Len(fetched) = 0
              THEN allThrows(w, a, "No clan data could be fetched from CoC API")
              ELSE [w EXCEPT !.alls[a].pc = "fulfilled",
                             !.alls[a].value =
                                Some(allResponse(w, w.alls[a].details[1], fetched))]
    ELSE w

\* the requests from request a on resume in turn
RECURSIVE advanceAlls(_, _)
advanceAlls(w, a) ==
  IF a > Len(w.alls) THEN w ELSE advanceAlls(allAfterClans(w, a), a + 1)

(***************************************************************************)
(* getClanStats.                                                           *)
(***************************************************************************)
\* `stats:clan:${clanTag}`
statsKey(clanTag) == <<"s","t","a","t","s",":","c","l","a","n",":">> \o clanTag

\* xs.sort((a, b) => (b[field] || 0) - (a[field] || 0)): descending, stable
RECURSIVE sortDesc(_, _)
sortDesc(xs, field) ==
  IF xs = <<>> THEN <<>>
  ELSE LET init == sortDesc(SubSeq(xs, 1, Len(xs) - 1), field)
           last == xs[Len(xs)]
           Before(m) == last[field] - m[field] <= 0
           After(m) == ~Before(m)
       IN SelectSeq(init, Before) \o <<last>> \o SelectSeq(init, After)

\* .slice(0, 5).map(m => ({ name: m.name, ... })), reduced to the names
topNames(xs) == [i \in 1..(IF Len(xs) < 5 THEN Len(xs) ELSE 5) |-> xs[i].name]

\* getClanStats(clanTag) up to its first pending await: cached stats are
\* returned; otherwise the call awaits getClanDetails(clanTag)
callClanStats(w, clanTag) ==
  LET cached == cacheGet(w.cache, statsKey(clanTag))
      w1 == startClanDetails(w, clanTag)
  IN IF cached # null
       THEN [w EXCEPT !.statsCalls = Append(@, [arg |-> clanTag, task |-> 0,
                                                pc |-> "fulfilled",
                                                value |-> cached])]
       ELSE [w1 EXCEPT !.statsCalls = Append(@, [arg |-> clanTag,
                                                 task |-> Len(w1.tasks),
                                                 pc |-> "clan",
                                                 value |-> null])]

\* call k once its getClanDetails settled: a failure is rethrown; otherwise
\* clan.memberList is sorted by donations for topDonors and by trophies for
\* topTrophies, each time in place, and the stats are cached and returned
statsAfterClan(w, k) ==
  IF w.statsCalls[k].pc = "clan" /\ w.tasks[w.statsCalls[k].task].pc = "rejected"
    THEN [w EXCEPT !.statsCalls[k].pc = "rejected"]
  ELSE IF w.statsCalls[k].pc = "clan" /\ w.tasks[w.statsCalls[k].task].pc = "fulfilled"
    THEN LET ref == w.tasks[w.statsCalls[k].task].ref
             byDonations == sortDesc(w.objs[ref].memberList, "donations")
             byTrophies == sortDesc(byDonations, "trophies")
             stats == [tag |-> w.objs[ref].tag,
                       members |-> Len(w.objs[ref].memberList),
                       topDonors |-> topNames(byDonations),
                       topTrophies |-> topNames(byTrophies)]
         IN [w EXCEPT !.objs[ref].memberList = byTrophies,
                      !.cache = cacheSet(@, statsKey(w.statsCalls[k].arg), stats),
                      !.statsCalls[k].pc = "fulfilled",
                      !.statsCalls[k].value = Some(stats)]
  ELSE w

\* the calls of getClanStats from call k on resume in turn
RECURSIVE advanceStats(_, _)
advanceStats(w, k) ==
  IF k > Len(w.statsCalls) THEN w ELSE advanceStats(statsAfterClan(w, k), k + 1)

(***************************************************************************)
(* getClanEligibleMembers.                                                 *)
(***************************************************************************)
\* getClanEligibleMembers(clanTag, sheetData) up to await import(...)
callEligibleMembers(w, clanTag, sheetData) ==
  [w EXCEPT !.eligCalls = Append(@, [arg |-> clanTag, sheetData |-> sheetData,
                                     task |-> 0, pc |-> "import",
                                     value |-> null])]

\* the import of call k fulfils: the call awaits getClanDetails(clanTag)
eligImported(w, k) ==
  LET w1 == startClanDetails(w, w.eligCalls[k].arg)
  IN [w1 EXCEPT !.eligCalls[k].task = Len(w1.tasks),
                !.eligCalls[k].pc = "clan"]

\* parseInt(sheetData?.members) || 0
requiredMembers(sheetData) ==
  IF sheetData = null THEN 0 ELSE parseIntOr0(sheetData[1].members)

\* the object without Math.max: remainingSlots is required - eligibleCount
eligibleInfoNoMax(clan, sheetData) ==
  LET levels == [i \in DOMAIN clan.memberList |-> clan.memberList[i].townHallLevel]
      eligibleCount == calculateEligibleMembers(sheetData, levels)
      required == requiredMembers(sheetData)
  IN [clanTag |-> clan.tag,
      eligibleMembers |-> eligibleCount,
      requiredMembers |-> required,
      isFull |-> eligibleCount >= required,
      remainingSlots |-> required - eligibleCount]

\* the object call k returns for the clan it received
eligibleInfo(clan, sheetData) ==
  LET levels == [i \in DOMAIN clan.memberList |-> clan.memberList[i].townHallLevel]
      eligibleCount == calculateEligibleMembers(sheetData, levels)
      required == requiredMembers(sheetData)
  IN [clanTag |-> clan.tag,
      eligibleMembers |-> eligibleCount,
      requiredMembers |-> required,
      isFull |-> eligibleCount >= required,
      remainingSlots |-> MathMax(<<0, required - eligibleCount>>)]

\* call k once its getClanDetails settled: a failure is rethrown; otherwise
\* the counts are computed and returned
eligAfterClan(w, k) ==
  IF w.eligCalls[k].pc = "clan" /\ w.tasks[w.eligCalls[k].task].pc = "rejected"
    THEN [w EXCEPT !.eligCalls[k].pc = "rejected"]
  ELSE IF w.eligCalls[k].pc = "clan" /\ w.tasks[w.eligCalls[k].task].pc = "fulfilled"
    THEN [w EXCEPT !.eligCalls[k].pc = "fulfilled",
                   !.eligCalls[k].value =
                      Some(eligibleInfo(w.objs[w.tasks[w.eligCalls[k].task].ref],
                                        w.eligCalls[k].sheetData))]
  ELSE w

\* the calls of getClanEligibleMembers from call k on resume in turn
RECURSIVE advanceElig(_, _)
advanceElig(w, k) ==
  IF k > Len(w.eligCalls) THEN w ELSE advanceElig(eligAfterClan(w, k), k + 1)

\* every continuation that the settled promises resume
advance(w) ==
  advanceElig(advanceStats(advanceAlls(advanceCwls(advanceMultis(w), 1), 1), 1), 1)

(***************************************************************************)
(* Calls of initializeCoCClient on their own.                              *)
(***************************************************************************)
InitLogin ==
  /\ envSet \in BOOLEAN
  /\ LoginIdle /\ ClansIdle /\ CallsIdle
  /\ FilterIdle /\ EligIdle

\* some code calls initializeCoCClient()
CallInitialize ==
  /\ Len(inits) < MaxInits
  /\ MayLogin(World)
  /\ Commit([callInitialize(World) EXCEPT
               !.inits = Append(@, InitCall(callInitialize(World),
                                            initializeCoCClient(World)))])

\* newClient.login(...) fulfils
LoginSucceeds ==
  /\ clientInitializing # null
  /\ logins[clientInitializing[1]] = "pending"
  /\ Commit(advance(loginSettles(World, TRUE)))

\* newClient.login(...) rejects
LoginFails ==
  /\ clientInitializing # null
  /\ logins[clientInitializing[1]] = "pending"
  /\ Commit(advance(loginSettles(World, FALSE)))

NextLogin == CallInitialize \/ LoginSucceeds \/ LoginFails

SpecLogin == InitLogin /\ [][NextLogin]_vars

\* C20: concurrent calls of initializeCoCClient log in at most once while no
\* login has failed, never have two logins in flight, all receive the same
\* client, and start no login after one succeeded
C20_LoginAtMostOnce ==
  /\ (\A n \in DOMAIN logins : logins[n] # "rejected") => Len(logins) <= 1
  /\ Cardinality({n \in DOMAIN logins : logins[n] = "pending"}) <= 1
  /\ \A i, j \in DOMAIN inits :
       (inits[i].pc = "fulfilled" /\ inits[j].pc = "fulfilled")
         => (inits[i].value # null /\ inits[i].value = inits[j].value)
  /\ \A n \in DOMAIN logins : logins[n] = "fulfilled" => n = Len(logins)

\* three calls were made while no client existed and the same login served
\* them all
C20_Witness ==
  /\ Len(inits) = 3 /\ Len(logins) = 1
  /\ \A i \in DOMAIN inits :
       inits[i].pc = "fulfilled" /\ inits[i].promise = 1 /\ inits[i].value = Some(1)

(***************************************************************************)
(* Calls of getMultipleClans, as POST /api/clans/multiple makes them for   *)
(* concurrent HTTP requests, and calls of getClanDetails, as               *)
(* GET /api/clans/:clanTag makes them.                                     *)
(***************************************************************************)
MaxTasks == 7
MaxMultis == 2
MaxDirect == 1

\* the calls of getClanDetails that a route made
Direct(w) ==
  {t \in DOMAIN w.tasks :
     /\ \A m \in DOMAIN w.multis :
          \A k \in DOMAIN w.multis[m].ids : w.multis[m].ids[k] # t
     /\ \A k \in DOMAIN w.statsCalls : w.statsCalls[k].task # t
     /\ \A k \in DOMAIN w.eligCalls : w.eligCalls[k].task # t}

\* the tag lists of the calls: no tag, no valid tag, five clans, six clans
\* with placeholders between them, and clan #1 written without '#'
SampleTagLists ==
  { <<>>,
    << <<>>, Str_YOUR_CLAN_TAG >>,
    << Tag(1), Tag(2), Tag(3), Tag(4), Tag(5) >>,
    << Tag(1), <<>>, Tag(2), Tag(3), Tag(4), Tag(5), Str_YOUR_CLAN_TAG, <<"6">> >>,
    << <<"1">> >> }

\* the tags of the direct calls of getClanDetails
SampleTags == { <<"1">>, Tag(6) }

InitClans ==
  /\ envSet = TRUE
  /\ LoginIdle /\ ClansIdle /\ CallsIdle
  /\ FilterIdle /\ EligIdle

\* a route calls getMultipleClans(clanTags)
CallGetMultipleClans ==
  \E clanTags \in SampleTagLists :
    /\ Len(multis) < MaxMultis
    /\ Len(tasks) + Len(validTags(clanTags)) <= MaxTasks
    /\ MayLogin(World)
    /\ Commit(advance(callMultipleClans(World, clanTags)))

\* a route calls getClanDetails(clanTag)
CallGetClanDetails ==
  \E clanTag \in SampleTags :
    /\ Len(tasks) < MaxTasks
    /\ Cardinality(Direct(World)) < MaxDirect
    /\ MayLogin(World)
    /\ Commit(advance(startClanDetails(World, clanTag)))

\* the API answers the request of call t
ClanFetched ==
  \E t \in DOMAIN tasks :
    /\ tasks[t].pc = "fetching"
    /\ Commit(advance(clanFetched(World, t)))

\* the request of call t fails
ClanFetchFails ==
  \E t \in DOMAIN tasks :
    /\ tasks[t].pc = "fetching"
    /\ Commit(advance(clanFetchFails(World, t)))

\* the 100 ms timer between two batches of call m fires
TimerFires ==
  \E m \in DOMAIN multis :
    /\ multis[m].pc = "delay"
    /\ MayLogin(World)
    /\ Commit(advance(timerFires(World, m)))

NextClans ==
  \/ CallGetMultipleClans
  \/ LoginSucceeds
  \/ LoginFails
  \/ ClanFetched
  \/ ClanFetchFails
  \/ TimerFires

SpecClans == InitClans /\ [][NextClans]_vars

\* the requests cocClient.getClan that are in flight
InFlight == {t \in DOMAIN tasks : tasks[t].pc = "fetching"}

\* the tags of the argument of call m that name a clan, in input order
WantedTags(m) ==
  LET arg == multis[m].arg
      Names(p) == arg[p] # <<>> /\ arg[p] # Str_YOUR_CLAN_TAG
      at == SelectSeq([p \in DOMAIN arg |-> p], Names)
  IN [k \in DOMAIN at |-> arg[at[k]]]

\* the records the API holds for the wanted tags of call m whose
\* getClanDetails fulfilled, in input order
SucceededRecords(m) ==
  LET Succeeded(k) == tasks[multis[m].ids[k]].pc = "fulfilled"
      at == SelectSeq([k \in DOMAIN multis[m].ids |-> k], Succeeded)
  IN [j \in DOMAIN at |-> clanData(ApiClan(formattedTag(WantedTags(m)[at[j]])))]

\* C16: a call of getMultipleClans never rejects, whichever fetches or logins
\* fail; once the fetches of all its wanted tags settled it has returned, and
\* what it returns are the records of the wanted tags whose fetch succeeded,
\* in input order
C16_FailedTagsDropped ==
  \A m \in DOMAIN multis :
    /\ multis[m].pc # "rejected"
    /\ Len(multis[m].ids) <= Len(WantedTags(m))
    /\ (/\ Len(multis[m].ids) = Len(WantedTags(m))
        /\ \A k \in DOMAIN multis[m].ids : Settled(tasks[multis[m].ids[k]]))
         => multis[m].pc = "fulfilled"
    /\ multis[m].pc = "fulfilled"
         => /\ Len(multis[m].ids) = Len(WantedTags(m))
            /\ [j \in DOMAIN multis[m].value |-> objs[multis[m].value[j]]]
                 = SucceededRecords(m)

\* a call for five clans returned four records: one fetch had failed
C16_Witness ==
  \E m \in DOMAIN multis :
    /\ multis[m].pc = "fulfilled"
    /\ Len(multis[m].arg) = 5 /\ Len(WantedTags(m)) = 5
    /\ Len(multis[m].value) = 4
    /\ Cardinality({k \in DOMAIN multis[m].ids :
                      tasks[multis[m].ids[k]].pc = "rejected"}) = 1

\* C19: at most REQUEST_POOL_SIZE requests to the API are in flight
C19_AtMostPoolInFlight == Cardinality(InFlight) <= REQUEST_POOL_SIZE

\* the number of the batch that holds the k-th wanted tag of a call
BatchOf(k) == (k - 1) \div REQUEST_POOL_SIZE

\* C25: a call of getMultipleClans starts its getClanDetails calls in the
\* order of its wanted tags and in batches of at most REQUEST_POOL_SIZE, a
\* whole batch in one step, and starts none of a batch before every call of
\* the batches before it has settled.
C25_BatchesOneAfterTheOther ==
  \A m \in DOMAIN multis :
    LET ids == multis[m].ids
        wanted == WantedTags(m)
    IN /\ Len(ids) <= Len(wanted)
       /\ \A k \in DOMAIN ids : tasks[ids[k]].tag = formattedTag(wanted[k])
       /\ Len(ids) = Len(wanted) \/ Len(ids) % REQUEST_POOL_SIZE = 0
       /\ Len(wanted) > 0 => Len(ids) > 0
       /\ \A j, k \in DOMAIN ids :
            BatchOf(j) < BatchOf(k) => Settled(tasks[ids[j]])

\* a call for six clans has a request of its second batch in flight; in its
\* first batch one request failed and one succeeded
C25_Witness ==
  \E m \in DOMAIN multis :
    /\ Len(multis[m].ids) = REQUEST_POOL_SIZE + 1
    /\ tasks[multis[m].ids[REQUEST_POOL_SIZE + 1]].pc = "fetching"
    /\ \E j, k \in 1..REQUEST_POOL_SIZE :
         /\ tasks[multis[m].ids[j]].pc = "rejected"
         /\ tasks[multis[m].ids[k]].pc = "fulfilled"

(***************************************************************************)
(* Calls of getCWLClansFiltered, as GET /api/cwl/clans makes them for      *)
(* concurrent HTTP requests, while cache entries expire.                   *)
(***************************************************************************)
MaxCwls == 2

SheetRecord(inUse, clanTag, format, members, townHall, league) ==
  [inUse |-> inUse, clanTag |-> clanTag, format |-> format,
   members |-> members, townHall |-> townHall, league |-> league]

\* the sheets a fetch may find: no data row; rows without a usable "In Use"
\* or clan tag; a roster of clan #2 (rank 2) and clan #1 (rank 1), both lazy
SampleSheets ==
  { <<>>,
    << SheetRecord(<<>>, Tag(1), Str_lazy, <<"1">>, Str_TH2, "Master 2"),
       SheetRecord(<<"x">>, Tag(2), Str_lazy, <<"1">>, Str_TH2, "Master 2"),
       SheetRecord(<<"3">>, Str_VALUE, Str_lazy, <<"1">>, Str_TH2, "Master 2") >>,
    << SheetRecord(<<"2">>, Tag(2), <<"L","a","z","y">>, <<"1">>, Str_TH2, "Master 2"),
       SheetRecord(<<"1">>, <<" ","1"," ">>, Str_lazy, <<"2">>, Str_TH2, "Master 2") >> }

\* the entry of a key leaves the cache: its TTL expired, or a route deleted it
cacheDel(c, key) == [k \in DOMAIN c \ {key} |-> c[k]]

InitCwl ==
  /\ envSet = TRUE
  /\ LoginIdle /\ ClansIdle /\ CallsIdle
  /\ FilterIdle /\ EligIdle

\* a route calls getCWLClansFiltered()
CallGetCWLClansFiltered ==
  /\ Len(cwls) < MaxCwls
  /\ MayLogin(World)
  /\ Commit(advance(callCwl(World)))

\* the spreadsheet answers the fetch of call c
SheetFetched ==
  \E c \in DOMAIN cwls, sheet \in SampleSheets :
    /\ cwls[c].pc = "sheet"
    /\ MayLogin(World)
    /\ Commit(advance(sheetFetched(World, c, sheet)))

\* the fetch of call c fails
SheetFetchFails ==
  \E c \in DOMAIN cwls :
    /\ cwls[c].pc = "sheet"
    /\ Commit(advance(sheetFetchFails(World, c)))

\* a cache entry expires or is deleted
Expire ==
  \E key \in DOMAIN cache :
    Commit([World EXCEPT !.cache = cacheDel(@, key)])

NextCwl ==
  \/ CallGetCWLClansFiltered
  \/ SheetFetched
  \/ SheetFetchFails
  \/ LoginSucceeds
  \/ LoginFails
  \/ ClanFetched
  \/ ClanFetchFails
  \/ Expire

SpecCwl == InitCwl /\ [][NextCwl]_vars

\* call c did not reuse a cached list: it asked for the roster
Recomputed(c) == cwls[c].details # null \/ cwls[c].pc = "sheet"

\* call c does not reuse a cached list in this step
RecomputesNow(c) == cwls'[c].details # null \/ cwls'[c].pc = "sheet"

\* call c ends in failure in this step
FailsNow(c) ==
  /\ cwls'[c].pc = "rejected"
  /\ c \in DOMAIN cwls => cwls[c].pc # "rejected"

\* C15: a call of getCWLClansFiltered whose roster has no row, or whose
\* getMultipleClans returned no clan, has failed with the matching error and
\* returned no list; the step in which a call fails leaves the entry
\* cwl:filtered-clans as it was
C15_EmptyFetchFails ==
  /\ [](\A c \in DOMAIN cwls :
          /\ cwls[c].details = Some(<<>>)
               => /\ cwls[c].pc = "rejected"
                  /\ cwls[c].error = "No CWL clans found in Google Sheets"
                  /\ cwls[c].value = <<>>
          /\ (/\ cwls[c].multi # 0
              /\ multis[cwls[c].multi].pc = "fulfilled"
              /\ multis[cwls[c].multi].value = <<>>)
               => /\ cwls[c].pc = "rejected"
                  /\ cwls[c].error = "No clan data could be fetched from CoC API"
                  /\ cwls[c].value = <<>>)
  /\ [][\A c \in DOMAIN cwls' :
          FailsNow(c) => cacheGet(cache', Str_cwl_filtered_clans)
                           = cacheGet(cache, Str_cwl_filtered_clans)]_vars

\* one call failed for an empty roster, another because no clan could be
\* fetched, and no list is cached
C15_Witness ==
  /\ \E c \in DOMAIN cwls :
       cwls[c].details = Some(<<>>) /\ cwls[c].pc = "rejected"
  /\ \E c \in DOMAIN cwls :
       /\ cwls[c].multi # 0 /\ Len(cwls[c].details[1]) = 2
       /\ multis[cwls[c].multi].value = <<>>
       /\ cwls[c].pc = "rejected"
  /\ Str_cwl_filtered_clans \notin DOMAIN cache

\* C17: a call that computes a list stores it under cwl:filtered-clans, and
\* a call that starts while the entry is in the cache returns the entry's
\* list at once, without a roster fetch, a getMultipleClans, a getClanDetails
\* or a login
C17_CachedListServed ==
  /\ [][\A c \in DOMAIN cwls' :
          (/\ cwls'[c].pc = "fulfilled" /\ RecomputesNow(c)
           /\ c \in DOMAIN cwls /\ cwls[c].pc # "fulfilled")
            => cacheGet(cache', Str_cwl_filtered_clans) = Some(cwls'[c].value)]_vars
  /\ [][(/\ Len(cwls') = Len(cwls) + 1
         /\ Str_cwl_filtered_clans \in DOMAIN cache)
          => /\ cwls'[Len(cwls')].pc = "fulfilled"
             /\ cwls'[Len(cwls')].value = cache[Str_cwl_filtered_clans]
             /\ ~RecomputesNow(Len(cwls'))
             /\ cwls'[Len(cwls')].multi = 0
             /\ tasks' = tasks /\ multis' = multis /\ logins' = logins
             /\ cache' = cache]_vars

\* a call computed and stored a list of two clans, and a later call returned
\* the stored list without asking for the roster
C17_Witness ==
  \E c, d \in DOMAIN cwls :
    /\ c < d
    /\ cwls[c].pc = "fulfilled" /\ Recomputed(c) /\ Len(cwls[c].value) = 2
    /\ cwls[d].pc = "fulfilled" /\ ~Recomputed(d)
    /\ cwls[d].value = cwls[c].value
    /\ cacheGet(cache, Str_cwl_filtered_clans) = Some(cwls[c].value)


\* C30: when every call of getCWLClansFiltered so far has failed for a roster
\* without rows and no list is cached, the next call asks the spreadsheet
\* for the roster again: it ends its first step with the fetch in flight.
C30_EmptyRosterIsFetchedAgain ==
  [][(/\ Len(cwls') = Len(cwls) + 1
      /\ cwls # <<>>
      /\ \A c \in DOMAIN cwls :
           cwls[c].pc = "rejected" /\ cwls[c].details = Some(<<>>)
      /\ Str_cwl_filtered_clans \notin DOMAIN cache)
       => cwls'[Len(cwls')].pc = "sheet"]_vars
(***************************************************************************)
(* Calls of getClanStats and getClanDetails on the same clans, as the      *)
(* routes make them.                                                       *)
(***************************************************************************)
MaxStats == 2

InitStats ==
  /\ envSet = TRUE
  /\ LoginIdle /\ ClansIdle /\ CallsIdle
  /\ FilterIdle /\ EligIdle

\* a route calls getClanStats(clanTag)
CallGetClanStats ==
  \E clanTag \in {Tag(1), Tag(6)} :
    /\ Len(statsCalls) < MaxStats
    /\ Len(tasks) < MaxTasks
    /\ MayLogin(World)
    /\ Commit(advance(callClanStats(World, clanTag)))

NextStats ==
  \/ CallGetClanStats
  \/ CallGetClanDetails
  \/ LoginSucceeds
  \/ LoginFails
  \/ ClanFetched
  \/ ClanFetchFails
  \/ Expire

SpecStats == InitStats /\ [][NextStats]_vars

\* C18: a call of getClanDetails that hits the cache receives the record as
\* getClanDetails built and stored it, memberList order included
C18_CacheHitReturnsStoredRecord ==
  [][\A t \in DOMAIN tasks' :
       (t \notin DOMAIN tasks /\ tasks'[t].pc = "fulfilled")
         => objs[tasks'[t].ref] = clanData(ApiClan(tasks'[t].tag))]_vars


(***************************************************************************)
(* Calls of getClanEligibleMembers, as POST /api/cwl/clans/:clanTag/       *)
(* eligible makes them.  Each "Members" text is listed with the number it  *)
(* spells out (0 when it spells none).                                     *)
(***************************************************************************)
MaxEligCalls == 1

MemberSamples ==
  << [text |-> <<>>, number |-> 0],
     [text |-> <<"a","b","c">>, number |-> 0],
     [text |-> <<"x","5">>, number |-> 0],
     [text |-> <<"0">>, number |-> 0],
     [text |-> <<"2">>, number |-> 2],
     [text |-> <<" ","3"," ","m","a","x">>, number |-> 3],
     [text |-> <<"1","2">>, number |-> 12] >>

\* the sheetData of the calls: no row, and rows with each "Members" text and
\* a rule that counts 0, 2 or 3 members of clan #1
SampleSheetData ==
  {null} \cup
  { Row(1, Str_lazy, MemberSamples[k].text, th, "Master 2") :
      k \in DOMAIN MemberSamples,
      th \in { <<>>, Str_TH2, Str_TH2 \o <<" ","a","n","d"," ","b","e","l","o","w">> } }

InitEligibleCalls ==
  /\ envSet = TRUE
  /\ LoginIdle /\ ClansIdle /\ CallsIdle
  /\ FilterIdle /\ EligIdle

\* a route calls getClanEligibleMembers(clanTag, sheetData)
CallGetClanEligibleMembers ==
  \E clanTag \in SampleTags, sheetData \in SampleSheetData :
    /\ Len(eligCalls) < MaxEligCalls
    /\ Commit(callEligibleMembers(World, clanTag, sheetData))

\* the import of clashOfClansService.js by call k fulfils
Imported ==
  \E k \in DOMAIN eligCalls :
    /\ eligCalls[k].pc = "import"
    /\ Len(tasks) < MaxTasks
    /\ MayLogin(World)
    /\ Commit(advance(eligImported(World, k)))

NextEligibleCalls ==
  \/ CallGetClanEligibleMembers
  \/ Imported
  \/ LoginSucceeds
  \/ LoginFails
  \/ ClanFetched
  \/ ClanFetchFails

SpecEligibleCalls == InitEligibleCalls /\ [][NextEligibleCalls]_vars

\* the number the "Members" text of sheetData spells out, 0 without a row
SpelledMembers(sheetData) ==
  IF sheetData = null THEN 0
  ELSE LET k == CHOOSE k \in DOMAIN MemberSamples :
                  MemberSamples[k].text = sheetData[1].members
       IN MemberSamples[k].number

\* C22: what getClanEligibleMembers returns has requiredMembers = the number
\* of the "Members" text (0 when it spells none), isFull exactly when
\* eligibleMembers >= requiredMembers, remainingSlots = max(0, requiredMembers
\* - eligibleMembers), never negative, and isFull exactly when remainingSlots
\* is 0.
C22_EligibleInfoConsistent ==
  \A k \in DOMAIN eligCalls :
    eligCalls[k].pc = "fulfilled" =>
      LET v == eligCalls[k].value[1]
          gap == v.requiredMembers - v.eligibleMembers
      IN /\ v.requiredMembers = SpelledMembers(eligCalls[k].sheetData)
         /\ v.isFull <=> (v.eligibleMembers >= v.requiredMembers)
         /\ v.remainingSlots = (IF gap > 0 THEN gap ELSE 0)
         /\ v.remainingSlots >= 0
         /\ v.isFull <=> (v.remainingSlots = 0)

\* a call returned for a clan with three eligible members and a row that
\* requires two
C22_Witness ==
  \E k \in DOMAIN eligCalls :
    /\ eligCalls[k].pc = "fulfilled"
    /\ eligCalls[k].value[1].eligibleMembers = 3
    /\ eligCalls[k].value[1].requiredMembers = 2
    /\ eligCalls[k].value[1].isFull
    /\ eligCalls[k].value[1].remainingSlots = 0

(***************************************************************************)
(* Calls of cacheService.delPattern, as DELETE /api/cache/pattern/:pattern *)
(* makes them, on a cache that holds entries of the services.              *)
(***************************************************************************)
MaxPatCalls == 1

\* keys the services store entries under
SampleKeys ==
  { clanKey(Tag(1)), clanKey(Tag(2)), statsKey(Tag(1)),
    <<"w","a","r",":">> \o Tag(1),
    <<"s","h","e","e","t","s",":","c","w","l","-","c","l","a","n","s">>,
    Str_sheets_cwl_clans_details, Str_cwl_filtered_clans }

\* "clan:*", "stats:*", "*", "*clans", "sheets:cwl-clans", "clan:#1"
SamplePatterns ==
  { <<"c","l","a","n",":","*">>,
    <<"s","t","a","t","s",":","*">>,
    <<"*">>,
    <<"*","c","l","a","n","s">>,
    <<"s","h","e","e","t","s",":","c","w","l","-","c","l","a","n","s">>,
    clanKey(Tag(1)) }

InitCache ==
  /\ envSet = TRUE
  /\ LoginIdle /\ ClansIdle /\ CallsIdle
  /\ FilterIdle /\ EligIdle

\* a service stores an entry: cacheService.set(key, value, ttl)
CacheSet ==
  \E key \in SampleKeys :
    /\ patCalls = <<>>
    /\ Commit([World EXCEPT !.cache = cacheSet(@, key, 0)])

\* a route calls cacheService.delPattern(pattern)
DelPattern ==
  \E pattern \in SamplePatterns :
    /\ Len(patCalls) < MaxPatCalls
    /\ Commit(delPattern(World, pattern))

NextCache == CacheSet \/ DelPattern

SpecCache == InitCache /\ [][NextCache]_vars

\* the pattern p, from its element k on, spells out s from position i on:
\* '*' stands for any characters, every other character for itself
RECURSIVE GlobMatchAt(_, _, _, _)
GlobMatchAt(p, k, s, i) ==
  IF k > Len(p) THEN i > Len(s)
  ELSE IF p[k] = "*"
    THEN GlobMatchAt(p, k + 1, s, i) \/ (i <= Len(s) /\ GlobMatchAt(p, k, s, i + 1))
  ELSE i <= Len(s) /\ p[k] = s[i] /\ GlobMatchAt(p, k + 1, s, i + 1)

\* the keys of the set keys that pattern p matches
GlobMatches(p, keys) == {key \in keys : GlobMatchAt(p, 1, key, 1)}

\* C28: a call of delPattern removes the keys its pattern matches ('*' a
\* wildcard, the rest literal), removes no other key, and returns the number
\* of keys it removed.
C28_PatternRemovesMatchingKeysOnly ==
  \A k \in DOMAIN patCalls :
    /\ patCalls[k].after = patCalls[k].before \ GlobMatches(patCalls[k].pattern, patCalls[k].before)
    /\ patCalls[k].deleted = Cardinality(patCalls[k].before \ patCalls[k].after)


(***************************************************************************)
(* Calls of initializeCoCClient whose attempt may fail at either step: at  *)
(* new Client(...), which throws before the first await, or at the login.  *)
(***************************************************************************)
InitAttempts ==
  /\ envSet = TRUE
  /\ LoginIdle /\ ClansIdle /\ CallsIdle
  /\ FilterIdle /\ EligIdle

\* some code calls initializeCoCClient() and new Client(...) throws
CallInitializeClientThrows ==
  /\ Len(inits) < MaxInits
  /\ Len(logins) < MaxLogins
  /\ initializeCoCClient(World).how = "login"
  /\ Commit([callInitializeClientThrows(World) EXCEPT
               !.inits = Append(@, InitCall(callInitializeClientThrows(World),
                                            initializeCoCClient(World)))])

NextAttempts ==
  \/ CallInitialize
  \/ CallInitializeClientThrows
  \/ LoginSucceeds
  \/ LoginFails

SpecAttempts == InitAttempts /\ [][NextAttempts]_vars

\* attempt n has ended in failure
Failed(n) == logins[n] = "rejected"

\* C29: once an attempt has ended in failure, clientInitializing does not
\* hold its promise and client holds no client but that of a later login
\* that succeeded; every call that awaited the attempt has received the
\* failure; and a call made with the credentials set, while no client exists
\* and no attempt is under way, starts a new attempt.
C29_FailedAttemptIsCleanedUp ==
  /\ [](/\ clientInitializing # null => ~Failed(clientInitializing[1])
        /\ client # null => logins[client[1]] = "fulfilled"
        /\ \A i \in DOMAIN inits :
             (inits[i].promise # 0 /\ Failed(inits[i].promise))
               => inits[i].pc = "rejected")
  /\ [][(/\ Len(inits') = Len(inits) + 1
         /\ envSet
         /\ client = null
         /\ \A n \in DOMAIN logins : logins[n] # "pending")
          => /\ Len(logins') = Len(logins) + 1
             /\ inits'[Len(inits')].promise = Len(logins')]_vars

(***************************************************************************)
(* Requests GET /api/cwl/clans, with and without all=true, handled         *)
(* concurrently while no cache entry expires.                              *)
(***************************************************************************)
MaxRequests == 2

\* the sheets a fetch may find: a roster of clan #2 and of a clan whose tag
\* is written in small letters; and a roster with two rows for clan #1, the
\* row of rank 1 lazy and not full (two eligible members of three required)
RouteSheets ==
  { << SheetRecord(<<"1">>, Tag(2), Str_lazy, <<"1">>, Str_TH2, "Master 2"),
       SheetRecord(<<"2">>, <<"#","q">>, Str_lazy, <<"1">>, Str_TH2, "Master 2") >>,
    << SheetRecord(<<"2">>, <<"1">>, Str_serious, <<"a","b","c">>, <<>>, "Master 2"),
       SheetRecord(<<"1">>, Tag(1), Str_lazy, <<"3">>, Str_TH2, "Master 2") >> }

InitRoutes ==
  /\ envSet = TRUE
  /\ LoginIdle /\ ClansIdle /\ CallsIdle
  /\ FilterIdle /\ EligIdle

\* a request without all=true: the handler calls getCWLClansFiltered()
RouteFiltered ==
  /\ Len(cwls) + Len(alls) < MaxRequests
  /\ MayLogin(World)
  /\ Commit(advance(callCwl(World)))

\* a request with all=true
RouteAll ==
  /\ Len(cwls) + Len(alls) < MaxRequests
  /\ MayLogin(World)
  /\ Commit(advance(callAll(World)))

\* the spreadsheet answers the fetch of call c of getCWLClansFiltered
RosterFetched ==
  \E c \in DOMAIN cwls, sheet \in RouteSheets :
    /\ cwls[c].pc = "sheet"
    /\ MayLogin(World)
    /\ Commit(advance(sheetFetched(World, c, sheet)))

\* the spreadsheet answers the fetch of request a
AllRosterFetched ==
  \E a \in DOMAIN alls, sheet \in RouteSheets :
    /\ alls[a].pc = "sheet"
    /\ MayLogin(World)
    /\ Commit(advance(allSheetFetched(World, a, sheet)))

\* the fetch of request a fails
AllRosterFetchFails ==
  \E a \in DOMAIN alls :
    /\ alls[a].pc = "sheet"
    /\ Commit(advance(allSheetFetchFails(World, a)))

NextRoutes ==
  \/ RouteFiltered
  \/ RouteAll
  \/ RosterFetched
  \/ AllRosterFetched
  \/ SheetFetchFails
  \/ AllRosterFetchFails
  \/ LoginSucceeds
  \/ LoginFails
  \/ ClanFetched
  \/ ClanFetchFails

SpecRoutes == InitRoutes /\ [][NextRoutes]_vars


(***************************************************************************)
(* Concurrent calls of getCWLClansFiltered: no entry expires, so every     *)
(* call that misses the cache runs beside the others that missed it.       *)
(***************************************************************************)
MaxRacers == 2

\* a call of getCWLClansFiltered()
CallFiltered ==
  /\ Len(cwls) < MaxRacers
  /\ MayLogin(World)
  /\ Commit(advance(callCwl(World)))

NextRace ==
  \/ CallFiltered
  \/ RosterFetched
  \/ SheetFetchFails
  \/ LoginSucceeds
  \/ LoginFails
  \/ ClanFetched
  \/ ClanFetchFails

SpecRace == InitRoutes /\ [][NextRace]_vars
\* the tags of the getClanDetails calls of call m of getMultipleClans that
\* fulfilled, in the order of the calls
FetchedTags(m) ==
  LET ids == multis[m].ids
      Ok(k) == tasks[ids[k]].pc = "fulfilled"
      at == SelectSeq([k \in DOMAIN ids |-> k], Ok)
  IN [j \in DOMAIN at |-> tasks[ids[at[j]]].tag]

\* the record the API holds for a tag, as getClanDetails returns it
LiveRecord(tag) == clanData(ApiClan(tag))

\* the town hall levels of a live record's members
LevelsOf(live) == [i \in DOMAIN live.memberList |-> live.memberList[i].townHallLevel]

\* the first row of the roster with the tag, null when there is none
FirstRowWithTag(details, tag) ==
  LET at == {k \in DOMAIN details : details[k].tag = tag}
  IN IF at = {} THEN null
     ELSE Some(details[CHOOSE k \in at : \A j \in at : k <= j])

\* C21: a request with all=true that is answered went through the roster and
\* getMultipleClans; its response has filtered = false and, in count and in
\* clans, one clan for every getClanDetails that succeeded, none hidden; what
\* a call of getCWLClansFiltered computed from the same roster and the same
\* fetched clans is among them; and the entry cwl:filtered-clans holds
\* nothing but the list a call of getCWLClansFiltered computed.
C21_AllBypassesFilterAndCache ==
  /\ \A a \in DOMAIN alls :
       alls[a].pc = "fulfilled" =>
         LET v == alls[a].value[1]
             ft == FetchedTags(alls[a].multi)
         IN /\ alls[a].details # null /\ alls[a].multi # 0
            /\ v.filtered = FALSE
            /\ v.count = Len(ft) /\ Len(v.clans) = Len(ft)
            /\ \A k \in DOMAIN ft : v.clans[k].tag = LiveRecord(ft[k]).tag
            /\ \A c \in DOMAIN cwls :
                 (/\ cwls[c].pc = "fulfilled" /\ Recomputed(c)
                  /\ cwls[c].details = alls[a].details
                  /\ FetchedTags(cwls[c].multi) = ft)
                   => ElemsOf(cwls[c].value) \subseteq ElemsOf(v.clans)
  /\ Str_cwl_filtered_clans \in DOMAIN cache =>
       \E c \in DOMAIN cwls :
         /\ cwls[c].pc = "fulfilled" /\ Recomputed(c)
         /\ cwls[c].value = cache[Str_cwl_filtered_clans]

\* a request with all=true was answered with the two records of clan #1,
\* and a call of getCWLClansFiltered with the same roster and fetches
\* returned one and cached its list
C21_Witness ==
  \E a \in DOMAIN alls, c \in DOMAIN cwls :
    /\ alls[a].pc = "fulfilled" /\ alls[a].value[1].count = 2
    /\ cwls[c].pc = "fulfilled" /\ Recomputed(c)
    /\ cwls[c].details = alls[a].details
    /\ FetchedTags(cwls[c].multi) = FetchedTags(alls[a].multi)
    /\ Len(cwls[c].value) = 1
    /\ cacheGet(cache, Str_cwl_filtered_clans) = Some(cwls[c].value)

\* the merged clan mc is the live record of the tag joined with the first
\* roster row of the record's tag
MergedFrom(mc, details, tag) ==
  LET live == LiveRecord(tag)
      row == FirstRowWithTag(details, live.tag)
  IN /\ mc.tag = live.tag
     /\ mc.sheetData = row
     /\ mc.eligibleMembers = calculateEligibleMembers(row, LevelsOf(live))

\* C23: the clans of an all=true response are, one for one and in order, the
\* records getMultipleClans returned, each joined with the first roster row
\* of its tag (null without such a row) and with the eligible members that
\* row gives its member list, whatever the order in which the fetches
\* completed; the clans getCWLClansFiltered returns are joined the same way.
C23_MergedByTag ==
  /\ \A a \in DOMAIN alls :
       alls[a].pc = "fulfilled" =>
         LET merged == alls[a].value[1].clans
             ft == FetchedTags(alls[a].multi)
         IN /\ Len(merged) = Len(ft)
            /\ \A k \in DOMAIN ft : MergedFrom(merged[k], alls[a].details[1], ft[k])
  /\ \A c \in DOMAIN cwls :
       (cwls[c].pc = "fulfilled" /\ Recomputed(c)) =>
         LET ft == FetchedTags(cwls[c].multi)
         IN \A j \in DOMAIN cwls[c].value :
              \E k \in DOMAIN ft : MergedFrom(cwls[c].value[j], cwls[c].details[1], ft[k])

\* one request with all=true was answered with a clan without roster row (the
\* API spells its tag otherwise than the roster), another with two records
\* of clan #1, both joined with the row of rank 1
C23_Witness ==
  \E a, b \in DOMAIN alls :
    /\ alls[a].pc = "fulfilled" /\ alls[b].pc = "fulfilled"
    /\ \E k \in DOMAIN alls[a].value[1].clans :
         alls[a].value[1].clans[k].sheetData = null
    /\ Len(alls[b].details[1]) = 2
    /\ alls[b].details[1][1].tag = alls[b].details[1][2].tag
    /\ Len(alls[b].value[1].clans) = 2
    /\ \A k \in 1..2 : alls[b].value[1].clans[k].sheetData = Some(alls[b].details[1][1])

\* the list getCWLClansFiltered computes from a roster and from the records
\* the API holds for the tags
ExpectedList(details, ft) ==
  LET merged == [k \in DOMAIN ft |->
                   mergedClan(details, LiveRecord(ft[k]))]
      visible == filterClansByCapacity(merged, [k \in DOMAIN ft |-> k])
  IN [k \in DOMAIN visible |-> merged[visible[k]]]

\* call c completes a recomputation in this step
CompletesNow(c) ==
  /\ cwls'[c].pc = "fulfilled" /\ RecomputesNow(c)
  /\ c \in DOMAIN cwls => cwls[c].pc # "fulfilled"

\* C24: of two calls of getCWLClansFiltered that both missed the cache, each
\* settles once its own roster and its own getClanDetails calls have, fails
\* only when its own roster fetch failed or gave no row or none of its own
\* getClanDetails calls succeeded, and returns the list of its own roster
\* and fetched clans; the step in which a call returns its list leaves that
\* list in the entry cwl:filtered-clans, and no other step changes the entry.
C24_ConcurrentMissesLastWriteWins ==
  /\ [](\A c, d \in DOMAIN cwls :
          (c # d /\ Recomputed(c) /\ Recomputed(d)) =>
            /\ cwls[c].pc = "clans" =>
                 \E k \in DOMAIN multis[cwls[c].multi].ids :
                   ~Settled(tasks[multis[cwls[c].multi].ids[k]])
            /\ cwls[c].pc = "rejected" =>
                 \/ cwls[c].details = null
                 \/ cwls[c].details = Some(<<>>)
                 \/ /\ cwls[c].multi # 0
                    /\ FetchedTags(cwls[c].multi) = <<>>
            /\ cwls[c].pc = "fulfilled" =>
                 cwls[c].value = ExpectedList(cwls[c].details[1],
                                              FetchedTags(cwls[c].multi)))
  /\ [][/\ \A c \in DOMAIN cwls' :
             CompletesNow(c) =>
               cacheGet(cache', Str_cwl_filtered_clans) = Some(cwls'[c].value)
        /\ cacheGet(cache', Str_cwl_filtered_clans)
             # cacheGet(cache, Str_cwl_filtered_clans)
             => \E c \in DOMAIN cwls' : CompletesNow(c)]_vars

\* two calls that both missed the cache returned different lists, and the
\* entry holds the list of the call that started first
C24_Witness ==
  \E c, d \in DOMAIN cwls :
    /\ c < d /\ Recomputed(c) /\ Recomputed(d)
    /\ cwls[c].pc = "fulfilled" /\ cwls[d].pc = "fulfilled"
    /\ cwls[c].value # cwls[d].value
    /\ cacheGet(cache, Str_cwl_filtered_clans) = Some(cwls[c].value)
=============================================================================
